---- MODULE Spec2Model ----
(***************************************************************************)
(* penstock: the flow registry (penstock/_registry.py) under concurrent    *)
(* strands, and the scoped flow context of the decorators                  *)
(* (penstock/_context.py, _decorators.py, _config.py, contrib/celery.py).  *)
(***************************************************************************)
EXTENDS Integers, Sequences, FiniteSets, TLC

\* ------------------------------------------------------------------ bounds

\* Registry operations started in one behaviour, over all strands.
MaxOps == 4

\* Decorated calls (entrypoint, step, flow_task) started in one behaviour.
MaxCalls == 3

\* Decorated calls active at once on one strand.
MaxDepth == 3

\* reset() calls started in one behaviour.
MaxResets == 1

\* The strands (threads) that call the registry and the decorated functions.
Strands == {"t1", "t2"}

FlowNames == {"f", "g"}

\* ------------------------------------------------------------------ types

\* _types.StepInfo: a frozen dataclass, compared field by field; `after` is a
\* tuple, so its order takes part in the comparison.
StepInfo(n, f, a, e) == [name |-> n, flow_name |-> f, after |-> a, is_entrypoint |-> e]

\* The StepInfo values the strands register: two entries that differ only in
\* the predecessor tuple, two that differ only in the entrypoint flag, a second
\* step of the same flow and a step of another flow.
Infos ==
    { StepInfo("a", "f", <<>>, TRUE),
      StepInfo("a", "f", <<"b">>, TRUE),
      StepInfo("a", "f", <<>>, FALSE),
      StepInfo("b", "f", <<"a">>, FALSE),
      StepInfo("a", "g", <<>>, TRUE) }

NoInfo == StepInfo("", "", <<>>, FALSE)

\* A dict is a function on its keys; the empty dict has no key.
EmptyDict == [k \in {} |-> NoInfo]

\* _types.FlowInfo: name, steps (a reference to a dict object), entrypoints (a
\* frozenset, a value).  Reference 0 is "no FlowInfo".
FlowInfo(n, s, e) == [name |-> n, steps |-> s, entrypoints |-> e]

NoFlowInfo == FlowInfo("", 0, {})

\* ------------------------------------------------------------------ state

VARIABLES
    steps,        \* FlowRegistry._steps: the outer dict, a sequence of
                  \* <<flow name, reference to the flow's dict>> in insertion order
    heap,         \* the dict objects: heap[r] is the content of the dict r
    lock,         \* FlowRegistry._lock: the strand holding it, or "" when free
    pc,           \* pc[t]: where strand t is in its registry operation
    local,        \* local[t]: the operation's arguments and local variables
    result,       \* result[t]: how strand t's last operation ended
    flowInfo,     \* flowInfo[t]: the FlowInfo last returned to strand t
    names,        \* names[t]: the list last returned by get_all_flow_names
    returned,     \* history: what flowInfo[t] held when it was returned
    pre,          \* history: the registry as strand t found it on taking the lock
    issued,       \* history: the StepInfo of every register call started
    distinctKeys, \* history: no two register calls named the same (flow, step)
    clearCalled,  \* history: clear was called
    conflictRaised, \* history: some register call raised Conflict
    sinceClear,   \* history: the StepInfo values registered with success since
                  \* the most recent clear, and whether that clear is the last
                  \* change made to the registry
    listed,       \* history: what get_all_flow_names returned to strand t
    nOps          \* operations started so far

regVars == <<steps, heap, lock, pc, local, result, flowInfo, names, returned, pre,
             issued, distinctKeys, clearCalled, conflictRaised, sinceClear, listed,
             nOps>>

VARIABLES
    ctxVar,       \* _context._flow_context_var as strand t reads it: the correlation
                  \* id of the current FlowContext, <<>> for None
    stack,        \* stack[t]: the decorated calls (and reset) active on strand t
    configured,   \* _config._configured
    backend,      \* _config._backend: "none", "logging" or "otel"
    cfgLock,      \* _config._lock: the strand holding it, or "" when free
    hasOtel,      \* whether opentelemetry can be imported in this process
    nextId,       \* nextId[t]: correlation ids generated so far on strand t
    lastExit,     \* history: how the last decorated call of strand t ended
    nCalls,       \* decorated calls started so far
    nResets       \* reset() calls started so far

scopeVars == <<ctxVar, stack, configured, backend, cfgLock, hasOtel, nextId, lastExit,
               nCalls, nResets>>

VARIABLES
    ctxs,         \* the FlowContext objects made so far: ctxs[c] holds the
                  \* attributes correlation_id and _metadata (a reference into objs)
    objs,         \* the dict and list objects that contexts and their callers hold
    slot,         \* slot[t]: the FlowContext object that _flow_context_var holds
                  \* on strand t, 0 for None
    snaps,        \* the dicts that FlowContext.metadata returned, with history
    made,         \* history: for each context, its id at construction and the
                  \* context it was forked from (0 for none)
    lastOp,       \* history: the last operation on a context or on a returned
                  \* copy, with what every context and copy read just before it
    nCtxOps       \* context operations started so far

objVars == <<ctxs, objs, slot, snaps, made, lastOp, nCtxOps>>

VARIABLES
    dreg,         \* dreg[r]: the StepInfo records of the registry r, in the order
                  \* in which they were inserted
    dout,         \* history: the last generate_dag call made on the registry r
    dfile,        \* the file at the output path
    nRenders      \* generate_dag calls made so far

dagVars == <<dreg, dout, dfile, nRenders>>

VARIABLES
    backendId,    \* which object _config._backend is: 0 for None, else the
                  \* number of the backend instance
    nInstances,   \* backend instances constructed so far
    got,          \* history: got[t] is the last get_backend() call strand t made
                  \* from outside the wrappers
    cfgHist       \* history: configure/reset calls started and ended, the
                  \* kind of the last one that ended, the instances that
                  \* existed then, and the auto-detections get_backend ran since

cfgVars == <<backendId, nInstances, got, cfgHist>>

VARIABLES
    msgs          \* the task messages published so far: the headers of each
                  \* and, as history, the current context of its producer

taskVars == <<msgs>>

\* ------------------------------------------------------------------ dicts

Keys(d) == {d[i][1] : i \in 1..Len(d)}

\* dict.get(k): the reference stored under k, 0 for None.
Get(d, k) == IF k \in Keys(d) THEN d[CHOOSE i \in 1..Len(d) : d[i][1] = k][2] ELSE 0

\* The registry as its callers can observe it: flow name -> step name -> StepInfo.
RegistryView == [f \in Keys(steps) |-> heap[Get(steps, f)]]

\* What is stored under (flow, step): <<>> for nothing, <<info>> otherwise.
Stored(view, f, n) ==
    IF f \in DOMAIN view /\ n \in DOMAIN view[f] THEN <<view[f][n]>> ELSE <<>>

StoredInfos(f) ==
    IF f \in Keys(steps) THEN {heap[Get(steps, f)][n] : n \in DOMAIN heap[Get(steps, f)]}
    ELSE {}

NoLocal == [op |-> "", info |-> NoInfo, name |-> "", ref |-> 0, existing |-> <<>>,
            entrypoints |-> {}, live |-> {}]

NoResult == [op |-> "", outcome |-> "", info |-> NoInfo, prior |-> <<>>,
             unchanged |-> TRUE, name |-> "", live |-> {}, missing |-> {}]

AllIdle == \A t \in Strands : pc[t] = "idle"

\* dict[k] = v on the dict value d.
Put(d, k, v) == [x \in DOMAIN d \cup {k} |-> IF x = k THEN v ELSE d[x]]

\* The names of all the steps of a dict value.
AllStepNames(d) == {d[n].name : n \in DOMAIN d}

\* The names of the entrypoint steps of a dict value (_registry.py line 37).
EntrypointsOf(d) == {d[n].name : n \in {m \in DOMAIN d : d[m].is_entrypoint}}

\* ------------------------------------------------------------------ the lock

CriticalPcs == {"register_setdefault", "register_check", "get_flow_lookup",
                "get_flow_copy", "get_all_flow_names_body", "clear_body"}

FirstPc(op) ==
    CASE op = "register" -> "register_setdefault"
      [] op = "get_flow" -> "get_flow_lookup"
      [] op = "validate_flow" -> "get_flow_lookup"
      [] op = "get_all_flow_names" -> "get_all_flow_names_body"
      [] op = "clear" -> "clear_body"

\* A lock that lets a strand in while another one holds it.
AcquireNoWait(t) ==
    /\ pc[t] = "acquire"
    /\ lock' = t
    /\ pc' = [pc EXCEPT ![t] = FirstPc(local[t].op)]
    /\ pre' = [pre EXCEPT ![t] = <<RegistryView>>]
    /\ UNCHANGED <<steps, heap, local, result, flowInfo, names, returned, issued,
                   distinctKeys, clearCalled, conflictRaised, nOps>>
    /\ UNCHANGED <<sinceClear, listed>>

\* `with self._lock:` on entry: the strand waits until the lock is free.
Acquire(t) ==
    /\ pc[t] = "acquire"
    /\ lock = ""
    /\ lock' = t
    /\ pc' = [pc EXCEPT ![t] = FirstPc(local[t].op)]
    /\ pre' = [pre EXCEPT ![t] = <<RegistryView>>]
    /\ UNCHANGED <<steps, heap, local, result, flowInfo, names, returned, issued,
                   distinctKeys, clearCalled, conflictRaised, nOps>>
    /\ UNCHANGED <<sinceClear, listed>>

\* A `with` block that keeps the lock when it is left by a raise.
LeaveHoldingOnRaise(t, outcome) ==
    /\ lock' = IF outcome \in {"Conflict", "NotFound"} THEN lock ELSE ""
    /\ pc' = [pc EXCEPT ![t] = "idle"]
    /\ result' = [result EXCEPT ![t] =
                    [op |-> local[t].op, outcome |-> outcome, info |-> local[t].info,
                     prior |-> Stored(pre[t][1], local[t].info.flow_name,
                                      local[t].info.name),
                     unchanged |-> (RegistryView' = pre[t][1]),
                     name |-> local[t].name, live |-> sinceClear.infos,
                     missing |-> {}]]
    /\ local' = [local EXCEPT ![t] = NoLocal]
    /\ pre' = [pre EXCEPT ![t] = <<>>]

\* `with self._lock:` on exit, by return or by raise: the lock is released and
\* the operation ends with `outcome`; the history keeps what was registered when
\* the operation held the lock.  steps' and heap' are set by the caller.
Leave(t, outcome) ==
    /\ lock' = ""
    /\ pc' = [pc EXCEPT ![t] = "idle"]
    /\ result' = [result EXCEPT ![t] =
                    [op |-> local[t].op, outcome |-> outcome, info |-> local[t].info,
                     prior |-> Stored(pre[t][1], local[t].info.flow_name,
                                      local[t].info.name),
                     unchanged |-> (RegistryView' = pre[t][1]),
                     name |-> local[t].name, live |-> sinceClear.infos,
                     missing |-> {}]]
    /\ local' = [local EXCEPT ![t] = NoLocal]
    /\ pre' = [pre EXCEPT ![t] = <<>>]

\* A strand starts an operation: it is now waiting for the lock.
Start(t, op, info, name) ==
    /\ pc[t] = "idle"
    /\ nOps < MaxOps
    /\ nOps' = nOps + 1
    /\ pc' = [pc EXCEPT ![t] = "acquire"]
    /\ local' = [local EXCEPT ![t] = [NoLocal EXCEPT !.op = op, !.info = info,
                                                     !.name = name]]

\* ------------------------------------------------------------------ register

\* The history after a register call that ended with success.
Registered(info) == [infos |-> sinceClear.infos \cup {info}, wiped |-> FALSE]

RegisterCall(t, info) ==
    /\ Start(t, "register", info, info.flow_name)
    /\ issued' = issued \cup {info}
    /\ distinctKeys' =
         (distinctKeys /\ \A i \in issued :
                             ~(i.flow_name = info.flow_name /\ i.name = info.name))
    /\ UNCHANGED <<steps, heap, lock, result, flowInfo, names, returned, pre,
                   clearCalled, conflictRaised>>
    /\ UNCHANGED <<sinceClear, listed>>

\* self._steps[flow] = {}: a new dict stored under the flow whether or not the
\* flow has one already.
SetFresh(flow) ==
    [steps |-> IF flow \in Keys(steps)
               THEN [i \in 1..Len(steps) |->
                       IF steps[i][1] = flow THEN <<flow, Len(heap) + 1>> ELSE steps[i]]
               ELSE Append(steps, <<flow, Len(heap) + 1>>),
     heap |-> Append(heap, EmptyDict),
     ref |-> Len(heap) + 1]

\* self._steps.setdefault(flow, {}): the flow's dict, a new empty one stored
\* under the flow when it has none.
SetDefault(flow) ==
    IF flow \in Keys(steps)
    THEN [steps |-> steps, heap |-> heap, ref |-> Get(steps, flow)]
    ELSE [steps |-> Append(steps, <<flow, Len(heap) + 1>>),
          heap |-> Append(heap, EmptyDict),
          ref |-> Len(heap) + 1]

\* Lines 20-21: flow_steps = setdefault(...); existing = flow_steps.get(name).
RegisterSetDefault(t) ==
    /\ pc[t] = "register_setdefault"
    /\ LET info == local[t].info
           sd == SetDefault(info.flow_name)
       IN /\ steps' = sd.steps
          /\ heap' = sd.heap
          /\ local' = [local EXCEPT ![t].ref = sd.ref,
                                    ![t].existing =
                                        IF info.name \in DOMAIN sd.heap[sd.ref]
                                        THEN <<sd.heap[sd.ref][info.name]>>
                                        ELSE <<>>]
    /\ pc' = [pc EXCEPT ![t] = "register_check"]
    /\ UNCHANGED <<lock, result, flowInfo, names, returned, pre, issued, distinctKeys,
                   clearCalled, conflictRaised, nOps>>
    /\ UNCHANGED <<sinceClear, listed>>

\* A register that raises on every entry it finds, equal or not.
RegisterRaiseOnExisting(t) ==
    /\ pc[t] = "register_check"
    /\ LET info == local[t].info
       IN IF local[t].existing # <<>>
          THEN /\ UNCHANGED <<steps, heap, sinceClear>>
               /\ conflictRaised' = TRUE
               /\ Leave(t, "Conflict")
          ELSE /\ heap' = [heap EXCEPT ![local[t].ref] = Put(@, info.name, info)]
               /\ steps' = steps
               /\ conflictRaised' = conflictRaised
               /\ sinceClear' = Registered(info)
               /\ Leave(t, "ok")
    /\ UNCHANGED <<flowInfo, names, returned, issued, distinctKeys, clearCalled, listed,
                   nOps>>

\* A register that stores the new entry over the one it finds.
RegisterOverwrite(t) ==
    /\ pc[t] = "register_check"
    /\ LET info == local[t].info
       IN /\ heap' = [heap EXCEPT ![local[t].ref] = Put(@, info.name, info)]
          /\ steps' = steps
          /\ conflictRaised' = conflictRaised
          /\ sinceClear' = Registered(info)
          /\ Leave(t, "ok")
    /\ UNCHANGED <<flowInfo, names, returned, issued, distinctKeys, clearCalled, listed,
                   nOps>>

\* A register that raises on a different entry after storing its own over it.
RegisterStoreThenRaise(t) ==
    /\ pc[t] = "register_check"
    /\ LET info == local[t].info
           existing == local[t].existing
       IN /\ heap' = [heap EXCEPT ![local[t].ref] = Put(@, info.name, info)]
          /\ steps' = steps
          /\ IF existing # <<>> /\ existing[1] # info
             THEN /\ conflictRaised' = TRUE
                  /\ sinceClear' = sinceClear
                  /\ Leave(t, "Conflict")
             ELSE /\ conflictRaised' = conflictRaised
                  /\ sinceClear' = Registered(info)
                  /\ Leave(t, "ok")
    /\ UNCHANGED <<flowInfo, names, returned, issued, distinctKeys, clearCalled, listed,
                   nOps>>

\* Lines 22-29: an equal entry is kept, a different one raises, no entry is
\* an insert; the lock is released on each of the three ways out.
RegisterCheck(t) ==
    /\ pc[t] = "register_check"
    /\ LET info == local[t].info
           existing == local[t].existing
       IN IF existing # <<>>
          THEN /\ UNCHANGED <<steps, heap>>
               /\ IF existing[1] # info
                  THEN /\ conflictRaised' = TRUE
                       /\ sinceClear' = sinceClear
                       /\ Leave(t, "Conflict")
                  ELSE /\ conflictRaised' = conflictRaised
                       /\ sinceClear' = Registered(info)
                       /\ Leave(t, "ok")
          ELSE /\ heap' = [heap EXCEPT ![local[t].ref] = Put(@, info.name, info)]
               /\ steps' = steps
               /\ conflictRaised' = conflictRaised
               /\ sinceClear' = Registered(info)
               /\ Leave(t, "ok")
    /\ UNCHANGED <<flowInfo, names, returned, issued, distinctKeys, clearCalled, listed,
                   nOps>>

\* ------------------------------------------------------------------ get_flow

GetFlowCall(t, name) ==
    /\ Start(t, "get_flow", NoInfo, name)
    /\ UNCHANGED <<steps, heap, lock, result, flowInfo, names, returned, pre, issued,
                   distinctKeys, clearCalled, conflictRaised>>
    /\ UNCHANGED <<sinceClear, listed>>

\* A lookup that takes an unknown flow for a flow without steps:
\* self._steps.get(name, {}).
GetFlowLookupOrEmpty(t) ==
    /\ pc[t] = "get_flow_lookup"
    /\ LET r == Get(steps, local[t].name)
       IN /\ heap' = IF r = 0 THEN Append(heap, EmptyDict) ELSE heap
          /\ local' = [local EXCEPT ![t].ref = IF r = 0 THEN Len(heap) + 1 ELSE r,
                                    ![t].entrypoints =
                                        IF r = 0 THEN {} ELSE EntrypointsOf(heap[r])]
    /\ pc' = [pc EXCEPT ![t] = "get_flow_copy"]
    /\ UNCHANGED <<steps, lock, result, pre>>
    /\ UNCHANGED <<flowInfo, names, returned, issued, distinctKeys, clearCalled,
                   conflictRaised, nOps>>
    /\ UNCHANGED <<sinceClear, listed>>

\* Lines 34-37: steps = self._steps.get(name), KeyError when None; the
\* entrypoints are read off the flow's dict.
GetFlowLookup(t) ==
    /\ pc[t] = "get_flow_lookup"
    /\ LET r == Get(steps, local[t].name)
       IN IF r = 0
          THEN /\ UNCHANGED <<steps, heap>>
               /\ Leave(t, "NotFound")
          ELSE /\ local' = [local EXCEPT ![t].ref = r,
                                         ![t].entrypoints = EntrypointsOf(heap[r])]
               /\ pc' = [pc EXCEPT ![t] = "get_flow_copy"]
               /\ UNCHANGED <<steps, heap, lock, result, pre>>
    /\ UNCHANGED <<flowInfo, names, returned, issued, distinctKeys, clearCalled,
                   conflictRaised, nOps>>
    /\ UNCHANGED <<sinceClear, listed>>

\* steps=steps: the FlowInfo holds the registry's own dict.
AliasDict(r) == [heap |-> heap, ref |-> r]

\* dict(steps): a new dict object with the content of r.
CopyDict(r) == [heap |-> Append(heap, heap[r]), ref |-> Len(heap) + 1]

\* Line 38: return FlowInfo(name=name, steps=dict(steps), entrypoints=entrypoints).
\* Called by validate_flow (line 51), the FlowInfo stays a local of validate_flow,
\* which goes on without the lock.
GetFlowCopy(t) ==
    /\ pc[t] = "get_flow_copy"
    /\ LET c == CopyDict(local[t].ref)
       IN /\ heap' = c.heap
          /\ steps' = steps
          /\ IF local[t].op = "validate_flow"
             THEN /\ lock' = ""
                  /\ pc' = [pc EXCEPT ![t] = "validate_check"]
                  /\ local' = [local EXCEPT ![t].ref = c.ref,
                                            ![t].live = sinceClear.infos]
                  /\ pre' = [pre EXCEPT ![t] = <<>>]
                  /\ UNCHANGED <<result, flowInfo, returned>>
             ELSE /\ flowInfo' = [flowInfo EXCEPT ![t] =
                                    FlowInfo(local[t].name, c.ref, local[t].entrypoints)]
                  /\ returned' = [returned EXCEPT ![t] =
                                    [steps |-> c.heap[c.ref],
                                     entrypoints |-> local[t].entrypoints,
                                     atLock |-> pre[t][1][local[t].name],
                                     live |-> sinceClear.infos]]
                  /\ Leave(t, "ok")
    /\ UNCHANGED <<names, issued, distinctKeys, clearCalled, conflictRaised, nOps>>
    /\ UNCHANGED <<sinceClear, listed>>

\* ------------------------------------------------------------------ get_all_flow_names, clear

GetAllFlowNamesCall(t) ==
    /\ Start(t, "get_all_flow_names", NoInfo, "")
    /\ UNCHANGED <<steps, heap, lock, result, flowInfo, names, returned, pre, issued,
                   distinctKeys, clearCalled, conflictRaised>>
    /\ UNCHANGED <<sinceClear, listed>>

\* The keys of the outer dict, in insertion order.
KeysOf(d) == [i \in 1..Len(d) |-> d[i][1]]

\* self._steps.keys(): a view, which reads the dict each time it is read.
KeysView == [view |-> TRUE, items |-> <<>>]

\* list(self._steps.keys()): a new list with the keys the dict has now.
KeysList == [view |-> FALSE, items |-> KeysOf(steps)]

\* What a strand reads in the object that get_all_flow_names returned to it.
NamesRead(t) == IF names[t].view THEN KeysOf(steps) ELSE names[t].items

\* Line 43: return list(self._steps.keys()).
GetAllFlowNamesBody(t) ==
    /\ pc[t] = "get_all_flow_names_body"
    /\ names' = [names EXCEPT ![t] = KeysList]
    /\ listed' = [listed EXCEPT ![t] = [called |-> TRUE, items |-> KeysOf(steps),
                                        live |-> sinceClear.infos,
                                        wiped |-> sinceClear.wiped]]
    /\ UNCHANGED <<steps, heap, sinceClear>>
    /\ Leave(t, "ok")
    /\ UNCHANGED <<flowInfo, returned, issued, distinctKeys, clearCalled,
                   conflictRaised, nOps>>

ClearCall(t) ==
    /\ Start(t, "clear", NoInfo, "")
    /\ clearCalled' = TRUE
    /\ UNCHANGED <<steps, heap, lock, result, flowInfo, names, returned, pre, issued,
                   distinctKeys, conflictRaised>>
    /\ UNCHANGED <<sinceClear, listed>>

\* A clear that empties the dict of every flow and keeps the flows.
ClearEmptiesFlows(t) ==
    /\ pc[t] = "clear_body"
    /\ steps' = [i \in 1..Len(steps) |-> <<steps[i][1], Len(heap) + i>>]
    /\ heap' = heap \o [i \in 1..Len(steps) |-> EmptyDict]
    /\ sinceClear' = [infos |-> {}, wiped |-> TRUE]
    /\ Leave(t, "ok")
    /\ UNCHANGED <<flowInfo, names, returned, issued, distinctKeys, clearCalled,
                   conflictRaised, listed, nOps>>

\* Line 67: self._steps.clear(); the flows' dicts are dropped, not emptied.
ClearBody(t) ==
    /\ pc[t] = "clear_body"
    /\ steps' = <<>>
    /\ heap' = heap
    /\ sinceClear' = [infos |-> {}, wiped |-> TRUE]
    /\ Leave(t, "ok")
    /\ UNCHANGED <<flowInfo, names, returned, issued, distinctKeys, clearCalled,
                   conflictRaised, listed, nOps>>

\* ------------------------------------------------------------------ validate_flow

\* The flows declared by the strands that validate: two steps that name each
\* other, a step that names itself, and two steps that name, between them,
\* three steps nobody declares.
ValInfos ==
    { StepInfo("a", "f", <<"b">>, TRUE),
      StepInfo("b", "f", <<"a">>, FALSE),
      StepInfo("a", "g", <<"a">>, TRUE),
      StepInfo("b", "g", <<"x", "y">>, FALSE),
      StepInfo("c", "g", <<"b", "z">>, FALSE) }

ValidateFlowCall(t, name) ==
    /\ Start(t, "validate_flow", NoInfo, name)
    /\ UNCHANGED <<steps, heap, lock, result, flowInfo, names, returned, pre, issued,
                   distinctKeys, clearCalled, conflictRaised>>
    /\ UNCHANGED <<sinceClear, listed>>

\* Some step of the set S of StepInfo comes, directly or through other steps
\* of S, after itself.
Cyclic(S) ==
    \E C \in (SUBSET S) \ {{}} :
        \A i \in C : \E j \in C : \E x \in DOMAIN i.after : i.after[x] = j.name

\* A list of missing references that stops at the first one found.
FirstMissing(d) ==
    LET all == UNION {{<<d[n].name, d[n].after[x]>> :
                          x \in {y \in DOMAIN d[n].after : d[n].after[y] \notin DOMAIN d}} :
                      n \in DOMAIN d}
    IN IF all = {} THEN {} ELSE {CHOOSE p \in all : TRUE}

\* Lines 52-57: one entry for each step of the snapshot and each name of its
\* `after` that is not a key of the snapshot.  The entries are kept as
\* (step, reference) pairs.
Missing(d) ==
    UNION {{<<d[n].name, d[n].after[x]>> :
               x \in {y \in DOMAIN d[n].after : d[n].after[y] \notin DOMAIN d}} :
           n \in DOMAIN d}

\* The end of a validate_flow call, outside the lock.
Validated(t, outcome, missing) ==
    /\ result' = [result EXCEPT ![t] =
                    [NoResult EXCEPT !.op = "validate_flow", !.outcome = outcome,
                                     !.name = local[t].name, !.live = local[t].live,
                                     !.missing = missing]]
    /\ pc' = [pc EXCEPT ![t] = "idle"]
    /\ local' = [local EXCEPT ![t] = NoLocal]
    /\ UNCHANGED <<steps, heap, lock, flowInfo, names, returned, pre, issued,
                   distinctKeys, clearCalled, conflictRaised, sinceClear, listed, nOps>>

\* A validate_flow that also rejects a flow whose steps form a cycle.
ValidateCheckAcyclic(t) ==
    /\ pc[t] = "validate_check"
    /\ LET d == heap[local[t].ref]
       IN Validated(t, IF Missing(d) # {} \/ Cyclic({d[n] : n \in DOMAIN d})
                       THEN "ValidationFailure" ELSE "ok",
                    Missing(d))

\* Lines 52-62: ValueError when the list of missing references is not empty.
ValidateCheck(t) ==
    /\ pc[t] = "validate_check"
    /\ LET d == heap[local[t].ref]
       IN Validated(t, IF Missing(d) # {} THEN "ValidationFailure" ELSE "ok",
                    Missing(d))

\* ------------------------------------------------------------------ the registry's specification

\* A process that has imported penstock.  FlowRegistry.__init__: a free lock and
\* an empty outer dict; no context on any strand; no backend configured.
\* `otel` holds the cases considered for "opentelemetry can be imported".
InitWith(otel) ==
    /\ steps = <<>>
    /\ heap = <<>>
    /\ lock = ""
    /\ pc = [t \in Strands |-> "idle"]
    /\ local = [t \in Strands |-> NoLocal]
    /\ result = [t \in Strands |-> NoResult]
    /\ flowInfo = [t \in Strands |-> NoFlowInfo]
    /\ names = [t \in Strands |-> [view |-> FALSE, items |-> <<>>]]
    /\ returned = [t \in Strands |-> [steps |-> EmptyDict, entrypoints |-> {},
                                      atLock |-> EmptyDict, live |-> {}]]
    /\ pre = [t \in Strands |-> <<>>]
    /\ issued = {}
    /\ distinctKeys = TRUE
    /\ clearCalled = FALSE
    /\ conflictRaised = FALSE
    /\ sinceClear = [infos |-> {}, wiped |-> FALSE]
    /\ listed = [t \in Strands |-> [called |-> FALSE, items |-> <<>>, live |-> {},
                                     wiped |-> FALSE]]
    /\ nOps = 0
    /\ ctxVar = [t \in Strands |-> <<>>]
    /\ stack = [t \in Strands |-> <<>>]
    /\ configured = FALSE
    /\ backend = "none"
    /\ cfgLock = ""
    /\ hasOtel \in otel
    /\ nextId = [t \in Strands |-> 0]
    /\ lastExit = [t \in Strands |->
                     [kind |-> "", outcome |-> "", outer |-> <<>>, atExit |-> <<>>,
                      after |-> <<>>, span |-> FALSE, ran |-> FALSE]]
    /\ nCalls = 0
    /\ nResets = 0
    /\ ctxs = <<>>
    /\ objs = <<>>
    /\ slot = [t \in Strands |-> 0]
    /\ snaps = <<>>
    /\ made = <<>>
    /\ lastOp = [op |-> "", ctx |-> 0, snap |-> 0, outcome |-> "", before |-> <<>>,
                 snapsBefore |-> <<>>, strand |-> "", key |-> "",
                 default |-> <<"none", 0>>, ret |-> <<"none", 0>>,
                 slotBefore |-> [t \in Strands |-> 0],
                 idsBefore |-> [t \in Strands |-> 0],
                 prev |-> [op |-> "", ctx |-> 0, strand |-> "", key |-> ""]]
    /\ nCtxOps = 0
    /\ dreg = [r \in {"A", "B"} |-> <<>>]
    /\ dout = [r \in {"A", "B"} |->
                 [called |-> FALSE, outcome |-> "", flow |-> "", format |-> "",
                  out |-> FALSE, steps |-> <<>>, ret |-> <<>>,
                  fileBefore |-> [exists |-> FALSE, text |-> <<>>],
                  fileAfter |-> [exists |-> FALSE, text |-> <<>>]]]
    /\ dfile = [exists |-> FALSE, text |-> <<>>]
    /\ nRenders = 0
    /\ backendId = 0
    /\ nInstances = 0
    /\ got = [t \in Strands |->
                [called |-> FALSE, outcome |-> "", id |-> 0, slow |-> FALSE,
                 detected |-> FALSE, win |-> 0, inWin |-> FALSE, last |-> "",
                 base |-> 0]]
    /\ cfgHist = [started |-> 0, ended |-> 0, last |-> "", base |-> 0, detects |-> 0]
    /\ msgs = {}

RegInit == InitWith({FALSE})

RegNext ==
    \E t \in Strands :
        \/ \E info \in Infos : RegisterCall(t, info) /\ UNCHANGED <<scopeVars, objVars, dagVars, taskVars, cfgVars>>
        \/ Acquire(t) /\ UNCHANGED <<scopeVars, objVars, dagVars, taskVars, cfgVars>>
        \/ RegisterSetDefault(t) /\ UNCHANGED <<scopeVars, objVars, dagVars, taskVars, cfgVars>>
        \/ RegisterCheck(t) /\ UNCHANGED <<scopeVars, objVars, dagVars, taskVars, cfgVars>>
        \/ \E name \in FlowNames : GetFlowCall(t, name) /\ UNCHANGED <<scopeVars, objVars, dagVars, taskVars, cfgVars>>
        \/ GetFlowLookup(t) /\ UNCHANGED <<scopeVars, objVars, dagVars, taskVars, cfgVars>>
        \/ GetFlowCopy(t) /\ UNCHANGED <<scopeVars, objVars, dagVars, taskVars, cfgVars>>
        \/ GetAllFlowNamesCall(t) /\ UNCHANGED <<scopeVars, objVars, dagVars, taskVars, cfgVars>>
        \/ GetAllFlowNamesBody(t) /\ UNCHANGED <<scopeVars, objVars, dagVars, taskVars, cfgVars>>
        \/ ClearCall(t) /\ UNCHANGED <<scopeVars, objVars, dagVars, taskVars, cfgVars>>
        \/ ClearBody(t) /\ UNCHANGED <<scopeVars, objVars, dagVars, taskVars, cfgVars>>


\* ------------------------------------------------------------------ claims on the registry

\* C1: while the register calls started so far name pairwise distinct
\* (flow, step) keys and clear was never called, no register call has raised
\* Conflict, and once every strand has returned each flow stores exactly the
\* StepInfo values registered under it: no write is lost.
C1_NoLostWrite ==
    (distinctKeys /\ ~clearCalled) =>
        /\ ~conflictRaised
        /\ AllIdle => \A f \in FlowNames : StoredInfos(f) = {i \in issued : i.flow_name = f}

\* Both strands have registered, under one flow, steps of different names, and
\* both calls have returned.
C1_Witness ==
    /\ AllIdle /\ distinctKeys /\ ~clearCalled
    /\ \E t, u \in Strands :
          /\ t # u
          /\ result[t].op = "register" /\ result[u].op = "register"
          /\ result[t].info.flow_name = result[u].info.flow_name
          /\ result[t].info.name # result[u].info.name
          /\ {result[t].info, result[u].info} \subseteq StoredInfos(result[t].info.flow_name)

\* C2: a register call that finds, under its (flow, step) key, an entry equal
\* to its argument returns without error and leaves the registry as it found it.
C2_Idempotent ==
    \A t \in Strands :
        (result[t].op = "register" /\ result[t].prior = <<result[t].info>>) =>
            (result[t].outcome = "ok" /\ result[t].unchanged)

C2_Witness ==
    \E t \in Strands :
        /\ result[t].op = "register"
        /\ result[t].prior = <<result[t].info>>
        /\ result[t].outcome = "ok"

\* C3: a register call that finds, under its (flow, step) key, an entry that
\* differs from its argument raises Conflict and leaves the whole registry,
\* the entry it found included, as it found it.
C3_ConflictKeepsEntry ==
    \A t \in Strands :
        (result[t].op = "register" /\ result[t].prior # <<>>
           /\ result[t].prior # <<result[t].info>>) =>
            (result[t].outcome = "Conflict" /\ result[t].unchanged)

C3_Witness ==
    \E t \in Strands :
        /\ result[t].op = "register"
        /\ result[t].prior # <<>>
        /\ result[t].prior[1].after # result[t].info.after
        /\ result[t].outcome = "Conflict"
        /\ pc[t] = "idle"
        /\ StoredInfos(result[t].info.flow_name) # {}

\* C4: the step map and the entrypoints of a FlowInfo that get_flow returned
\* are, in every later state, what they were when it was returned.
C4_SnapshotIsolated ==
    \A t \in Strands :
        flowInfo[t] # NoFlowInfo =>
            /\ heap[flowInfo[t].steps] = returned[t].steps
            /\ flowInfo[t].entrypoints = returned[t].entrypoints

\* A strand holds a FlowInfo of a flow that has since got another step.
C4_Witness ==
    \E t \in Strands :
        /\ flowInfo[t] # NoFlowInfo
        /\ flowInfo[t].name \in Keys(steps)
        /\ heap[Get(steps, flowInfo[t].name)] # returned[t].steps

\* C5: at most one strand is inside a critical section of the registry, the
\* one that holds the lock, and the steps and entrypoints of a FlowInfo that
\* get_flow returned are those the flow had at one instant, the one at which
\* get_flow took the lock.
MutualExclusion ==
    /\ Cardinality({t \in Strands : pc[t] \in CriticalPcs}) <= 1
    /\ \A t \in Strands : pc[t] \in CriticalPcs => lock = t

NoTornRead ==
    \A t \in Strands :
        flowInfo[t] # NoFlowInfo =>
            /\ returned[t].steps = returned[t].atLock
            /\ returned[t].entrypoints = EntrypointsOf(returned[t].atLock)

C5_Atomic == MutualExclusion /\ NoTornRead

\* get_flow is between its two reads of the flow while a register or a clear
\* of another strand waits for the lock.
C5_Witness ==
    \E t, u \in Strands :
        /\ pc[t] = "get_flow_copy"
        /\ pc[u] = "acquire"
        /\ local[u].op \in {"register", "clear"}

\* The StepInfo values of the set `infos` registered under the flow `name`.
InFlow(infos, name) == {i \in infos : i.flow_name = name}

\* C15: get_flow(name) raises NotFound exactly when no step has been registered
\* with success under `name` since the most recent clear, and whenever no
\* operation holds the lock the flows the registry holds are those with at
\* least one such step: no flow is present with zero steps.
C15_NotFoundIffUnregistered ==
    /\ \A t \in Strands :
           result[t].op = "get_flow" =>
               (result[t].outcome = "NotFound" <=>
                    InFlow(result[t].live, result[t].name) = {})
    /\ lock = "" => Keys(steps) = {i.flow_name : i \in sinceClear.infos}

\* get_flow has raised NotFound for a flow that had a step before a clear.
C15_Witness ==
    \E t \in Strands :
        /\ result[t].op = "get_flow"
        /\ result[t].outcome = "NotFound"
        /\ sinceClear.wiped
        /\ \E u \in Strands :
               /\ result[u].op = "clear"
               /\ InFlow(result[u].live, result[t].name) # {}

\* C16: the step map of the FlowInfo that get_flow returned holds, under its
\* name, each step registered under the flow when get_flow held the lock and
\* nothing else, and its entrypoints are the names of those of these steps
\* whose entrypoint flag is set.
C16_GetFlowExact ==
    \A t \in Strands :
        flowInfo[t] # NoFlowInfo =>
            LET registered == InFlow(returned[t].live, flowInfo[t].name)
            IN /\ DOMAIN returned[t].steps = {i.name : i \in registered}
               /\ \A n \in DOMAIN returned[t].steps :
                      returned[t].steps[n] \in registered
                          /\ returned[t].steps[n].name = n
               /\ returned[t].entrypoints =
                      {i.name : i \in {j \in registered : j.is_entrypoint}}

\* get_flow has returned a flow of two steps of which one is an entrypoint.
C16_Witness ==
    \E t \in Strands :
        /\ flowInfo[t] # NoFlowInfo
        /\ DOMAIN returned[t].steps = {"a", "b"}
        /\ returned[t].entrypoints = {"a"}
        /\ result[t].op = "get_flow" /\ result[t].outcome = "ok"

\* C20: the list that get_all_flow_names returned holds, each once, the names
\* of the flows with at least one step registered with success since the most
\* recent clear (none right after a clear), and it reads the same in every
\* later state, whatever is registered or cleared afterwards.
C20_NamesExact ==
    \A t \in Strands :
        listed[t].called =>
            /\ {listed[t].items[i] : i \in DOMAIN listed[t].items}
                   = {i.flow_name : i \in listed[t].live}
            /\ Len(listed[t].items) = Cardinality({i.flow_name : i \in listed[t].live})
            /\ listed[t].wiped => listed[t].items = <<>>
            /\ NamesRead(t) = listed[t].items

\* get_all_flow_names returned the empty list right after a clear that removed
\* a flow, and a flow has been registered since.
C20_Witness ==
    \E t \in Strands :
        /\ listed[t].called /\ listed[t].wiped
        /\ NamesRead(t) = <<>>
        /\ Keys(steps) # {}
        /\ \E u \in Strands : result[u].op = "clear" /\ result[u].live # {}

\* The (step, reference) pairs of the set S of StepInfo whose reference is not
\* the name of a step of S.
Unresolved(S) ==
    UNION {{<<i.name, i.after[x]>> :
               x \in {y \in DOMAIN i.after : i.after[y] \notin {j.name : j \in S}}} :
           i \in S}

\* The steps registered under the flow that strand t's last validate_flow
\* call named, when that call held the lock.
Validating(t) == InFlow(result[t].live, result[t].name)

\* C17: validate_flow on a registered flow returns when every name in every
\* step's `after` is a step of the flow, and otherwise raises one
\* ValidationFailure that lists every (step, predecessor) pair whose
\* predecessor is not a step of the flow.
C17_ValidateComplete ==
    \A t \in Strands :
        (result[t].op = "validate_flow" /\ Validating(t) # {}) =>
            IF Unresolved(Validating(t)) = {}
            THEN result[t].outcome = "ok" /\ result[t].missing = {}
            ELSE /\ result[t].outcome = "ValidationFailure"
                 /\ result[t].missing = Unresolved(Validating(t))

\* validate_flow has failed on a flow of two steps that name three steps the
\* flow does not have, and it has listed the three.
C17_Witness ==
    \E t \in Strands :
        /\ result[t].op = "validate_flow"
        /\ result[t].outcome = "ValidationFailure"
        /\ Cardinality(Validating(t)) = 2
        /\ Cardinality({p[2] : p \in result[t].missing}) = 3
        /\ Cardinality({p[1] : p \in result[t].missing}) = 2

\* C18: validate_flow on a flow that has no registered step raises NotFound.
C18_ValidateNotFound ==
    \A t \in Strands :
        (result[t].op = "validate_flow" /\ Validating(t) = {}) =>
            result[t].outcome = "NotFound"

\* validate_flow has raised NotFound for a flow that is not registered while
\* another flow, with an unresolved reference, is.
C18_Witness ==
    \E t \in Strands :
        /\ result[t].op = "validate_flow"
        /\ result[t].outcome = "NotFound"
        /\ Unresolved(result[t].live) # {}

\* C19: validate_flow returns on a flow whose steps form a cycle, when every
\* name in every step's `after` is a step of the flow.
C19_CyclesAccepted ==
    \A t \in Strands :
        (/\ result[t].op = "validate_flow"
         /\ Cyclic(Validating(t))
         /\ Unresolved(Validating(t)) = {}) =>
            result[t].outcome = "ok"

\* validate_flow has returned on the flow of two steps that name each other.
C19_Witness ==
    \E t \in Strands :
        /\ result[t].op = "validate_flow"
        /\ result[t].outcome = "ok"
        /\ Validating(t) = {StepInfo("a", "f", <<"b">>, TRUE),
                             StepInfo("b", "f", <<"a">>, FALSE)}
        /\ Cyclic(Validating(t))

\* ====================================================================== scoped context

NoCid == <<>>

\* The correlation id a task message carries for a producer's flow.
ProducerCid == <<"producer", 1>>

\* The empty string as a correlation id.
EmptyCid == <<"", 0>>

\* kwargs.pop("__penstock_headers__", {}).get("penstock_correlation_id").
HeaderCids == {NoCid, EmptyCid, ProducerCid}

\* The wrappers.  The async wrapper of an entrypoint or of a step is its sync
\* wrapper with `await fn(...)` for `fn(...)`: one kind stands for both, and a
\* call that ends cancelled is a call of the async one.
EntryStyleKinds == {"entrypoint", "flow_task"}
WithBackendKinds == {"entrypoint", "step"}

\* One active call: the wrapper it is in, its position, the correlation id of
\* the context it installed (own), the current context when it was called
\* (outer), its local `backend`, whether it opened a span / invoked fn, the
\* events its span has emitted, and the configuration history when it began;
\* for a flow_task invoked with a published message, that it was given headers
\* and the context the producer had.
Frame(kind, p, own, outer) ==
    [kind |-> kind, pc |-> p, own |-> own, outer |-> outer, backend |-> "none",
     span |-> FALSE, ran |-> FALSE, events |-> <<>>,
     cfg |-> [started |-> 0, ended |-> 0, last |-> "", base |-> 0, detects |-> 0],
     given |-> FALSE, producer |-> NoCid]

NoExit == [kind |-> "", outcome |-> "", outer |-> NoCid,
           atExit |-> NoCid, after |-> NoCid, span |-> FALSE, ran |-> FALSE,
           events |-> <<>>, body |-> ""]

Top(t) == stack[t][Len(stack[t])]

Pop(t) == SubSeq(stack[t], 1, Len(stack[t]) - 1)

SetTop(t, f) == [stack EXCEPT ![t] = [@ EXCEPT ![Len(@)] = f]]

InFrame(t, kind, p) ==
    /\ stack[t] # <<>>
    /\ Top(t).kind \in kind
    /\ Top(t).pc = p

\* uuid.uuid4().hex: an id no other context has.
FreshCid(t) == <<t, nextId[t] + 1>>

\* A module-level variable in the place of the ContextVar: what one strand
\* sets, every strand reads.
GlobalVarSet(t, cid) == [u \in Strands |-> cid]

\* _flow_context_var.set(...) on strand t (_context.py lines 81, 87, 92): the
\* value strand t reads from now on; the other strands keep theirs.
ContextVarSet(t, cid) == [ctxVar EXCEPT ![t] = cid]

\* A decorated function can be called from the top level of a strand or from
\* the wrapped logic of an active call.
CanCall(t) ==
    /\ nCalls < MaxCalls
    /\ Len(stack[t]) < MaxDepth
    /\ IF stack[t] = <<>> THEN TRUE ELSE Top(t).pc = "body"

\* The call on top of strand t's stack ends with `outcome`, leaving `after`
\* as the current context; a call that leaves the context as it is writes
\* nothing.
Exit(t, outcome, after) ==
    /\ stack' = [stack EXCEPT ![t] = Pop(t)]
    /\ ctxVar' = IF after = ctxVar[t] THEN ctxVar ELSE ContextVarSet(t, after)
    /\ lastExit' = [lastExit EXCEPT ![t] =
                      [kind |-> Top(t).kind, outcome |-> outcome,
                       outer |-> Top(t).outer, atExit |-> ctxVar[t], after |-> after,
                       span |-> Top(t).span, ran |-> Top(t).ran,
                       events |-> Top(t).events, body |-> ""]]

\* A span that emits its end event on a normal exit only and swallows a
\* failure of the block.
SpanEndOnSuccess(f, outcome) ==
    IF outcome = "return"
    THEN [events |-> Append(f.events, "step.end"), outcome |-> outcome]
    ELSE [events |-> f.events, outcome |-> "return"]

\* The end of `with backend.span(...)`.  LoggingBackend.span (backends/
\* logging.py lines 31-38): the block's outcome arrives at the yield, the
\* finally clause logs "step.end", and the outcome goes on to the caller.
\* OTelBackend.span (backends/otel.py lines 39-43): start_as_current_span ends
\* the span and lets the outcome through.
SpanEnd(f, outcome) ==
    [events |-> Append(f.events, "step.end"), outcome |-> outcome]

\* The call on top of strand t's stack leaves its span: the wrapped logic
\* ended with `outcome`.
ExitSpan(t, outcome, after) ==
    /\ stack' = [stack EXCEPT ![t] = Pop(t)]
    /\ ctxVar' = IF after = ctxVar[t] THEN ctxVar ELSE ContextVarSet(t, after)
    /\ lastExit' = [lastExit EXCEPT ![t] =
                      [kind |-> Top(t).kind, outcome |-> SpanEnd(Top(t), outcome).outcome,
                       outer |-> Top(t).outer, atExit |-> ctxVar[t], after |-> after,
                       span |-> Top(t).span, ran |-> Top(t).ran,
                       events |-> SpanEnd(Top(t), outcome).events, body |-> outcome]]

\* ------------------------------------------------------------------ @entrypoint

\* _decorators.py lines 133 and 154: _set_context(FlowContext()), before the try.
EntrypointCall(t) ==
    /\ CanCall(t)
    /\ nCalls' = nCalls + 1
    /\ nextId' = [nextId EXCEPT ![t] = @ + 1]
    /\ ctxVar' = ContextVarSet(t, FreshCid(t))
    /\ stack' = [stack EXCEPT ![t] =
                   Append(@, Frame("entrypoint", "get_backend", FreshCid(t), ctxVar[t]))]
    /\ UNCHANGED <<configured, backend, cfgLock, hasOtel, lastExit, nResets>>

\* ------------------------------------------------------------------ @step

\* A step wrapper without the check of lines 224-229 / 247-252.
StepCallUnchecked(t) ==
    /\ CanCall(t)
    /\ nCalls' = nCalls + 1
    /\ stack' = [stack EXCEPT ![t] =
                   Append(@, Frame("step", "get_backend", NoCid, ctxVar[t]))]
    /\ UNCHANGED <<ctxVar, lastExit>>
    /\ UNCHANGED <<configured, backend, cfgLock, hasOtel, nextId, nResets>>

\* _decorators.py lines 224-229 and 247-252: ctx = get_flow_context(); with no
\* context the call raises RuntimeError at once.
StepCall(t) ==
    /\ CanCall(t)
    /\ nCalls' = nCalls + 1
    /\ IF ctxVar[t] = NoCid
       THEN /\ lastExit' = [lastExit EXCEPT ![t] =
                              [NoExit EXCEPT !.kind = "step", !.outcome = "UsageError",
                                             !.outer = ctxVar[t], !.atExit = ctxVar[t],
                                             !.after = ctxVar[t]]]
            /\ UNCHANGED <<ctxVar, stack>>
       ELSE /\ stack' = [stack EXCEPT ![t] =
                           Append(@, Frame("step", "get_backend", NoCid, ctxVar[t]))]
            /\ UNCHANGED <<ctxVar, lastExit>>
    /\ UNCHANGED <<configured, backend, cfgLock, hasOtel, nextId, nResets>>

\* ------------------------------------------------------------------ get_backend

\* get_backend() is called by the wrappers of @entrypoint and @step, and by
\* callers of the public API.
GetBackendKinds == WithBackendKinds \cup {"get_backend"}

\* get_backend() calls made from the top level in one behaviour.
MaxGets == 2

\* get_backend() called from the top level of a strand.
GetBackendCall(t) ==
    /\ stack[t] = <<>>
    /\ nCalls < MaxGets
    /\ nCalls' = nCalls + 1
    /\ stack' = [stack EXCEPT ![t] =
                   <<[Frame("get_backend", "get_backend", NoCid, ctxVar[t])
                        EXCEPT !.cfg = cfgHist]>>]
    /\ UNCHANGED <<ctxVar, configured, backend, cfgLock, hasOtel, nextId, lastExit,
                   nResets>>
    /\ UNCHANGED cfgVars

\* The history record of the get_backend() call on top of strand t's stack:
\* how it ended, the instance returned, whether it took the lock and whether
\* it ran the auto-detection; the configure/reset calls started when it
\* began (win), whether none was running then and none began since (inWin),
\* and the last one that had ended then.
Got(t, outcome, id, slow, detected) ==
    IF Top(t).kind = "get_backend"
    THEN [got EXCEPT ![t] =
            [called |-> TRUE, outcome |-> outcome, id |-> id, slow |-> slow,
             detected |-> detected, win |-> Top(t).cfg.started,
             inWin |-> /\ Top(t).cfg.started = Top(t).cfg.ended
                       /\ cfgHist.started = Top(t).cfg.started,
             last |-> Top(t).cfg.last, base |-> Top(t).cfg.base]]
    ELSE got

\* `return _backend`: a wrapper goes on to open the span; a call from the top
\* level ends.
BackendReturned(t, b) ==
    IF Top(t).kind = "get_backend"
    THEN Exit(t, "return", ctxVar[t])
    ELSE /\ stack' = SetTop(t, [Top(t) EXCEPT !.pc = "span", !.backend = b])
         /\ UNCHANGED <<ctxVar, lastExit>>

\* _config.py line 45: `if _configured:`, read without the lock.
GetBackendCheck(t) ==
    /\ InFrame(t, GetBackendKinds, "get_backend")
    /\ stack' = SetTop(t, [Top(t) EXCEPT !.pc = IF configured THEN "get_backend_assert"
                                                            ELSE "get_backend_lock"])
    /\ UNCHANGED <<ctxVar, configured, backend, cfgLock, hasOtel, nextId, lastExit,
                   nCalls, nResets>>

\* _config.py lines 46-47: assert _backend is not None; return _backend.  The
\* AssertionError leaves the wrapper before its try block: nothing resets the
\* context.
GetBackendAssert(t) ==
    /\ InFrame(t, GetBackendKinds, "get_backend_assert")
    /\ IF backend = "none"
       THEN /\ Exit(t, "AssertionError", ctxVar[t])
            /\ got' = Got(t, "AssertionError", 0, FALSE, FALSE)
       ELSE /\ BackendReturned(t, backend)
            /\ got' = Got(t, "return", backendId, FALSE, FALSE)
    /\ UNCHANGED <<configured, backend, cfgLock, hasOtel, nextId, nCalls, nResets>>
    /\ UNCHANGED <<backendId, nInstances, cfgHist>>

\* _config.py line 48: with _lock.
GetBackendLock(t) ==
    /\ InFrame(t, GetBackendKinds, "get_backend_lock")
    /\ cfgLock = ""
    /\ cfgLock' = t
    /\ stack' = SetTop(t, [Top(t) EXCEPT !.pc = "get_backend_locked"])
    /\ UNCHANGED <<ctxVar, configured, backend, hasOtel, nextId, lastExit, nCalls,
                   nResets>>

\* _config.py lines 65-74: OTelBackend() when opentelemetry is there, else
\* LoggingBackend().
AutoDetect == IF hasOtel THEN "otel" ELSE "logging"

\* The lines 52-54 alone: the auto-detection without the second look at
\* _configured.
GetBackendLockedNoRecheck(t) ==
    /\ InFrame(t, GetBackendKinds, "get_backend_locked")
    /\ cfgLock' = ""
    /\ backend' = AutoDetect
    /\ backendId' = nInstances + 1
    /\ nInstances' = nInstances + 1
    /\ cfgHist' = [cfgHist EXCEPT !.detects = @ + 1]
    /\ configured' = TRUE
    /\ BackendReturned(t, AutoDetect)
    /\ got' = Got(t, "return", nInstances + 1, TRUE, TRUE)
    /\ UNCHANGED <<hasOtel, nextId, nCalls, nResets>>

\* _config.py lines 49-54, holding the lock.
GetBackendLocked(t) ==
    /\ InFrame(t, GetBackendKinds, "get_backend_locked")
    /\ cfgLock' = ""
    /\ IF configured
       THEN /\ UNCHANGED <<configured, backend, backendId, nInstances, cfgHist>>
            /\ IF backend = "none"
               THEN /\ Exit(t, "AssertionError", ctxVar[t])
                    /\ got' = Got(t, "AssertionError", 0, TRUE, FALSE)
               ELSE /\ BackendReturned(t, backend)
                    /\ got' = Got(t, "return", backendId, TRUE, FALSE)
       ELSE /\ backend' = AutoDetect
            /\ backendId' = nInstances + 1
            /\ nInstances' = nInstances + 1
            /\ cfgHist' = [cfgHist EXCEPT !.detects = @ + 1]
            /\ configured' = TRUE
            /\ BackendReturned(t, AutoDetect)
            /\ got' = Got(t, "return", nInstances + 1, TRUE, TRUE)
    /\ UNCHANGED <<hasOtel, nextId, nCalls, nResets>>

\* ------------------------------------------------------------------ reset

\* A configure or reset call begins.
MutatorStarted == [cfgHist EXCEPT !.started = @ + 1]

\* A configure or reset call has ended: the instances that exist now are the
\* ones made before what follows.
MutatorEnded(kind) ==
    [cfgHist EXCEPT !.ended = @ + 1, !.last = kind, !.base = nInstances,
                    !.detects = 0]

\* _config.py lines 57-60: reset() is called and waits for the lock.
ResetCall(t) ==
    /\ stack[t] = <<>>
    /\ nResets < MaxResets
    /\ nResets' = nResets + 1
    /\ stack' = [stack EXCEPT ![t] = <<Frame("reset", "reset_lock", NoCid, ctxVar[t])>>]
    /\ cfgHist' = MutatorStarted
    /\ UNCHANGED <<ctxVar, configured, backend, cfgLock, hasOtel, nextId, lastExit,
                   nCalls>>
    /\ UNCHANGED <<backendId, nInstances, got>>

ResetLock(t) ==
    /\ InFrame(t, {"reset"}, "reset_lock")
    /\ cfgLock = ""
    /\ cfgLock' = t
    /\ stack' = SetTop(t, [Top(t) EXCEPT !.pc = "reset_backend"])
    /\ UNCHANGED <<ctxVar, configured, backend, hasOtel, nextId, lastExit, nCalls,
                   nResets>>

\* _config.py line 61: _backend = None.
ResetBackend(t) ==
    /\ InFrame(t, {"reset"}, "reset_backend")
    /\ backend' = "none"
    /\ backendId' = 0
    /\ stack' = SetTop(t, [Top(t) EXCEPT !.pc = "reset_configured"])
    /\ UNCHANGED <<ctxVar, configured, cfgLock, hasOtel, nextId, lastExit, nCalls,
                   nResets>>
    /\ UNCHANGED <<nInstances, got, cfgHist>>

\* _config.py line 62: _configured = False, and the lock is released.
ResetConfigured(t) ==
    /\ InFrame(t, {"reset"}, "reset_configured")
    /\ configured' = FALSE
    /\ cfgLock' = ""
    /\ stack' = [stack EXCEPT ![t] = Pop(t)]
    /\ cfgHist' = MutatorEnded("reset")
    /\ UNCHANGED <<ctxVar, backend, hasOtel, nextId, lastExit, nCalls, nResets>>
    /\ UNCHANGED <<backendId, nInstances, got>>

\* ------------------------------------------------------------------ configure

\* configure() calls started in one behaviour.
MaxConfigs == 1

\* The arguments of configure: a TracingBackend instance the caller has just
\* made, the three names, and a string that is none of them.
ConfigureArgs == {"instance", "logging", "otel", "auto", "bogus"}

\* _config.py lines 14-24: configure(backend) is called and waits for the
\* lock; a caller that passes an instance has constructed a LoggingBackend.
ConfigureCall(t, arg) ==
    /\ stack[t] = <<>>
    /\ cfgHist.started - nResets < MaxConfigs
    /\ stack' = [stack EXCEPT ![t] =
                   <<[Frame("configure", "configure_lock", NoCid, ctxVar[t])
                        EXCEPT !.backend = arg,
                               !.own = IF arg = "instance" THEN <<"instance", nInstances + 1>>
                                       ELSE NoCid]>>]
    /\ nInstances' = IF arg = "instance" THEN nInstances + 1 ELSE nInstances
    /\ cfgHist' = MutatorStarted
    /\ UNCHANGED <<ctxVar, configured, backend, cfgLock, hasOtel, nextId, lastExit,
                   nCalls, nResets>>
    /\ UNCHANGED <<backendId, got>>

\* _config.py line 24: with _lock.
ConfigureLock(t) ==
    /\ InFrame(t, {"configure"}, "configure_lock")
    /\ cfgLock = ""
    /\ cfgLock' = t
    /\ stack' = SetTop(t, [Top(t) EXCEPT !.pc = "configure_backend"])
    /\ UNCHANGED <<ctxVar, configured, backend, hasOtel, nextId, lastExit, nCalls,
                   nResets>>
    /\ UNCHANGED cfgVars

\* _config.py lines 25-38: _backend is set to the instance given or to a new
\* one; "otel" without opentelemetry raises RuntimeError from OTelBackend(),
\* an unknown name raises ValueError, and either leaves the lock with nothing
\* written.
ConfigureBackend(t) ==
    /\ InFrame(t, {"configure"}, "configure_backend")
    /\ LET arg == Top(t).backend IN
       IF arg = "bogus" \/ (arg = "otel" /\ ~hasOtel)
       THEN /\ Exit(t, IF arg = "bogus" THEN "ValueError" ELSE "RuntimeError", ctxVar[t])
            /\ cfgLock' = ""
            /\ cfgHist' = MutatorEnded("configure")
            /\ UNCHANGED <<backend, backendId, nInstances>>
       ELSE /\ backend' = CASE arg = "instance" -> "logging"
                             [] arg = "auto" -> AutoDetect
                             [] OTHER -> arg
            /\ backendId' = IF arg = "instance" THEN Top(t).own[2] ELSE nInstances + 1
            /\ nInstances' = IF arg = "instance" THEN nInstances ELSE nInstances + 1
            /\ stack' = SetTop(t, [Top(t) EXCEPT !.pc = "configure_configured"])
            /\ UNCHANGED <<ctxVar, lastExit, cfgLock, cfgHist>>
    /\ UNCHANGED <<configured, hasOtel, nextId, nCalls, nResets, got>>

\* _config.py line 39: _configured = True, and the lock is released.
ConfigureConfigured(t) ==
    /\ InFrame(t, {"configure"}, "configure_configured")
    /\ configured' = TRUE
    /\ cfgLock' = ""
    /\ stack' = [stack EXCEPT ![t] = Pop(t)]
    /\ cfgHist' = MutatorEnded("configure")
    /\ UNCHANGED <<ctxVar, backend, hasOtel, nextId, lastExit, nCalls, nResets>>
    /\ UNCHANGED <<backendId, nInstances, got>>

\* ------------------------------------------------------------------ span, wrapped logic, exit

\* `with backend.span(...)` on entry, then fn is invoked.  LoggingBackend.span
\* (backends/logging.py lines 22, 40-44) reads the correlation id and installs a
\* new context when there is none; OTelBackend.span (backends/otel.py lines
\* 38-43) does not touch the context.
SpanEnter(t) ==
    /\ InFrame(t, WithBackendKinds, "span")
    /\ stack' = SetTop(t, [Top(t) EXCEPT !.pc = "body", !.span = TRUE, !.ran = TRUE,
                                          !.events = Append(@, "step.start")])
    /\ IF Top(t).backend = "logging" /\ ctxVar[t] = NoCid
       THEN /\ ctxVar' = ContextVarSet(t, FreshCid(t))
            /\ nextId' = [nextId EXCEPT ![t] = @ + 1]
       ELSE UNCHANGED <<ctxVar, nextId>>
    /\ UNCHANGED <<configured, backend, cfgLock, hasOtel, lastExit, nCalls, nResets>>

\* How wrapped logic can end: it returns, it raises, or (a coroutine) it is
\* cancelled at an await.
AllOutcomes == {"return", "raise", "cancel"}

Outcomes(kind) == IF kind \in WithBackendKinds THEN {"return", "raise", "cancel"}
                  ELSE {"return", "raise"}

\* _decorators.py lines 135-139 and 156-160: the span ends, then the finally
\* block runs _reset_context(), which sets the context variable to None.
EntrypointExit(t, outcome) ==
    /\ InFrame(t, {"entrypoint"}, "body")
    /\ outcome \in Outcomes(Top(t).kind)
    /\ ExitSpan(t, outcome, NoCid)
    /\ UNCHANGED <<configured, backend, cfgLock, hasOtel, nextId, nCalls, nResets>>

\* _decorators.py lines 231-232 and 254-255: the span ends; the step wrapper
\* writes no context.
StepExit(t, outcome) ==
    /\ InFrame(t, {"step"}, "body")
    /\ outcome \in Outcomes(Top(t).kind)
    /\ ExitSpan(t, outcome, ctxVar[t])
    /\ UNCHANGED <<configured, backend, cfgLock, hasOtel, nextId, nCalls, nResets>>

\* ------------------------------------------------------------------ flow_task

\* FlowContext.__init__ (_context.py line 26): correlation_id or uuid4().hex.
CidOrFresh(t, cid) == IF cid = NoCid \/ cid = EmptyCid THEN FreshCid(t) ELSE cid

\* contrib/celery.py lines 46-50: the context is built from the headers and
\* installed; fn is invoked inside the try.
FlowTaskCall(t, cid) ==
    /\ CanCall(t)
    /\ nCalls' = nCalls + 1
    /\ nextId' = [nextId EXCEPT ![t] = IF CidOrFresh(t, cid) = FreshCid(t)
                                       THEN @ + 1 ELSE @]
    /\ ctxVar' = ContextVarSet(t, CidOrFresh(t, cid))
    /\ stack' = [stack EXCEPT ![t] =
                   Append(@, [Frame("flow_task", "body", CidOrFresh(t, cid), ctxVar[t])
                                EXCEPT !.ran = TRUE])]
    /\ UNCHANGED <<configured, backend, cfgLock, hasOtel, lastExit, nResets>>

\* contrib/celery.py lines 51-54: finally: _reset_context().
FlowTaskExit(t, outcome) ==
    /\ InFrame(t, {"flow_task"}, "body")
    /\ outcome \in Outcomes("flow_task")
    /\ Exit(t, outcome, NoCid)
    /\ UNCHANGED <<configured, backend, cfgLock, hasOtel, nextId, nCalls, nResets>>

\* ------------------------------------------------------------------ the scope's specification

ScopeInit == InitWith(BOOLEAN)

ScopeNext ==
    \E t \in Strands :
        \/ EntrypointCall(t) /\ UNCHANGED <<regVars, objVars, dagVars, taskVars, cfgVars>>
        \/ StepCall(t) /\ UNCHANGED <<regVars, objVars, dagVars, taskVars, cfgVars>>
        \/ \E cid \in HeaderCids : FlowTaskCall(t, cid) /\ UNCHANGED <<regVars, objVars, dagVars, taskVars, cfgVars>>
        \/ GetBackendCheck(t) /\ UNCHANGED <<regVars, objVars, dagVars, taskVars, cfgVars>>
        \/ GetBackendAssert(t) /\ UNCHANGED <<regVars, objVars, dagVars, taskVars>>
        \/ GetBackendLock(t) /\ UNCHANGED <<regVars, objVars, dagVars, taskVars, cfgVars>>
        \/ GetBackendLocked(t) /\ UNCHANGED <<regVars, objVars, dagVars, taskVars>>
        \/ SpanEnter(t) /\ UNCHANGED <<regVars, objVars, dagVars, taskVars, cfgVars>>
        \/ \E outcome \in AllOutcomes : EntrypointExit(t, outcome) /\ UNCHANGED <<regVars, objVars, dagVars, taskVars, cfgVars>>
        \/ \E outcome \in AllOutcomes : StepExit(t, outcome) /\ UNCHANGED <<regVars, objVars, dagVars, taskVars, cfgVars>>
        \/ \E outcome \in AllOutcomes : FlowTaskExit(t, outcome) /\ UNCHANGED <<regVars, objVars, dagVars, taskVars, cfgVars>>
        \/ ResetCall(t) /\ UNCHANGED <<regVars, objVars, dagVars, taskVars>>
        \/ ResetLock(t) /\ UNCHANGED <<regVars, objVars, dagVars, taskVars, cfgVars>>
        \/ ResetBackend(t) /\ UNCHANGED <<regVars, objVars, dagVars, taskVars>>
        \/ ResetConfigured(t) /\ UNCHANGED <<regVars, objVars, dagVars, taskVars>>

vars == <<regVars, scopeVars, objVars, dagVars, cfgVars, taskVars>>

\* The registry under concurrent strands; no decorated function is called.
SpecRegistry ==
    /\ RegInit
    /\ [][RegNext]_vars

\* The decorated calls and the backend configuration; the registry is not
\* called.
SpecScope ==
    /\ ScopeInit
    /\ [][ScopeNext]_vars

\* The strand that configures and resets: the one that sets the program up.
\* Both strands call get_backend.
ConfigStrands == {"t2"}

ConfigNext ==
    \E t \in Strands :
        \/ GetBackendCall(t) /\ UNCHANGED <<regVars, objVars, dagVars, taskVars>>
        \/ GetBackendCheck(t) /\ UNCHANGED <<regVars, objVars, dagVars, taskVars, cfgVars>>
        \/ GetBackendAssert(t) /\ UNCHANGED <<regVars, objVars, dagVars, taskVars>>
        \/ GetBackendLock(t) /\ UNCHANGED <<regVars, objVars, dagVars, taskVars, cfgVars>>
        \/ GetBackendLocked(t) /\ UNCHANGED <<regVars, objVars, dagVars, taskVars>>
        \/ \E arg \in ConfigureArgs :
              (t \in ConfigStrands /\ ConfigureCall(t, arg)) /\ UNCHANGED <<regVars, objVars, dagVars, taskVars>>
        \/ ConfigureLock(t) /\ UNCHANGED <<regVars, objVars, dagVars, taskVars>>
        \/ ConfigureBackend(t) /\ UNCHANGED <<regVars, objVars, dagVars, taskVars>>
        \/ ConfigureConfigured(t) /\ UNCHANGED <<regVars, objVars, dagVars, taskVars>>
        \/ (t \in ConfigStrands /\ ResetCall(t)) /\ UNCHANGED <<regVars, objVars, dagVars, taskVars>>
        \/ ResetLock(t) /\ UNCHANGED <<regVars, objVars, dagVars, taskVars, cfgVars>>
        \/ ResetBackend(t) /\ UNCHANGED <<regVars, objVars, dagVars, taskVars>>
        \/ ResetConfigured(t) /\ UNCHANGED <<regVars, objVars, dagVars, taskVars>>

\* configure, get_backend and reset called from the strands' top level.
SpecConfig ==
    /\ ScopeInit
    /\ [][ConfigNext]_vars

ValNext ==
    \E t \in Strands :
        \/ \E info \in ValInfos : RegisterCall(t, info) /\ UNCHANGED <<scopeVars, objVars, dagVars, taskVars, cfgVars>>
        \/ Acquire(t) /\ UNCHANGED <<scopeVars, objVars, dagVars, taskVars, cfgVars>>
        \/ RegisterSetDefault(t) /\ UNCHANGED <<scopeVars, objVars, dagVars, taskVars, cfgVars>>
        \/ RegisterCheck(t) /\ UNCHANGED <<scopeVars, objVars, dagVars, taskVars, cfgVars>>
        \/ \E name \in FlowNames : ValidateFlowCall(t, name) /\ UNCHANGED <<scopeVars, objVars, dagVars, taskVars, cfgVars>>
        \/ GetFlowLookup(t) /\ UNCHANGED <<scopeVars, objVars, dagVars, taskVars, cfgVars>>
        \/ GetFlowCopy(t) /\ UNCHANGED <<scopeVars, objVars, dagVars, taskVars, cfgVars>>
        \/ ValidateCheck(t) /\ UNCHANGED <<scopeVars, objVars, dagVars, taskVars, cfgVars>>
        \/ ClearCall(t) /\ UNCHANGED <<scopeVars, objVars, dagVars, taskVars, cfgVars>>
        \/ ClearBody(t) /\ UNCHANGED <<scopeVars, objVars, dagVars, taskVars, cfgVars>>

\* Strands that declare steps, clear the registry and validate flows.
SpecValidate ==
    /\ RegInit
    /\ [][ValNext]_vars

\* ------------------------------------------------------------------ claims on the scoped context

\* The innermost entrypoint-style call that encloses the i-th active call of
\* strand t, 0 when there is none.
Enclosing(t, i) ==
    LET below == {j \in 1..(i - 1) : stack[t][j].kind \in EntryStyleKinds}
    IN IF below = {} THEN 0 ELSE CHOOSE j \in below : \A k \in below : k <= j

\* The innermost entrypoint-style call active on strand t, 0 when there is none.
Innermost(t) == Enclosing(t, Len(stack[t]) + 1)

\* C6: after an entrypoint-style call (entrypoint wrapper, flow_task wrapper)
\* has ended on a strand, by return, by raise or by cancellation, the strand
\* has no current context.
C6_ContextTornDown ==
    \A t \in Strands :
        lastExit[t].kind \in EntryStyleKinds => lastExit[t].after = NoCid

\* C7: while entrypoint-style calls are active on a strand, the current context
\* is the one installed by the innermost of them: when a nested one ends, the
\* context of the enclosing one is current again.
C7_WellNested ==
    \A t \in Strands :
        Innermost(t) # 0 => ctxVar[t] = stack[t][Innermost(t)].own

\* C8: an entrypoint call made while a context is current generates no new
\* correlation id: its wrapped logic runs under the id that was current.
C8_FreshOnlyWithoutContext ==
    \A t \in Strands : \A i \in DOMAIN stack[t] :
        (stack[t][i].kind = "entrypoint" /\ stack[t][i].outer # NoCid) =>
            /\ stack[t][i].own = stack[t][i].outer
            /\ (i = Len(stack[t]) /\ stack[t][i].pc = "body") =>
                   ctxVar[t] = stack[t][i].outer

\* C9: a step call made with no current context raises UsageError at once: no
\* step call made without a context is ever active, none opens a span or
\* invokes the wrapped logic, and the strand has no context after the failure.
C9_StepNeedsContext ==
    \A t \in Strands :
        /\ \A i \in DOMAIN stack[t] :
               stack[t][i].kind = "step" => stack[t][i].outer # NoCid
        /\ (lastExit[t].kind = "step" /\ lastExit[t].outer = NoCid) =>
               /\ lastExit[t].outcome = "UsageError"
               /\ ~lastExit[t].span
               /\ ~lastExit[t].ran
               /\ lastExit[t].after = NoCid

\* A step call has just failed with UsageError on a strand without context.
C9_Witness ==
    \E t \in Strands :
        /\ lastExit[t].kind = "step"
        /\ lastExit[t].outcome = "UsageError"
        /\ lastExit[t].outer = NoCid
        /\ ctxVar[t] = NoCid

\* C10: at every point inside a step call nested in an entrypoint call, the
\* current correlation id is the id of the context that entrypoint created,
\* and the exit of a step call leaves the current context as it was.
C10_StepKeepsContext ==
    \A t \in Strands :
        /\ \A i \in DOMAIN stack[t] :
               (/\ stack[t][i].kind = "step"
                /\ Enclosing(t, i) # 0
                /\ stack[t][Enclosing(t, i)].kind = "entrypoint") =>
                   ctxVar[t] = stack[t][Enclosing(t, i)].own
        /\ lastExit[t].kind = "step" => lastExit[t].after = lastExit[t].atExit

\* C11: the current-context slot is strand-local.  A step that changes the
\* current context of a strand is a step of that strand's own call stack, and
\* it leaves the current context and the call stack of every other strand as
\* they were; a strand never reads a correlation id generated on another
\* strand (an id handed over in a task message is passed explicitly).
OwnIdOnly ==
    \A t \in Strands :
        ctxVar[t] # NoCid => (ctxVar[t][1] = t \/ ctxVar[t] = ProducerCid)

NoCrossStrandWrite ==
    \A t \in Strands :
        ctxVar'[t] # ctxVar[t] =>
            /\ stack'[t] # stack[t]
            /\ \A u \in Strands \ {t} :
                   ctxVar'[u] = ctxVar[u] /\ stack'[u] = stack[u]

C11_StrandLocal == []OwnIdOnly /\ [][NoCrossStrandWrite]_vars

\* Two strands are inside the wrapped logic of entrypoint calls at the same
\* time, each under the id its own call generated.
C11_Witness ==
    \E t, u \in Strands :
        /\ t # u
        /\ InFrame(t, {"entrypoint"}, "body") /\ InFrame(u, {"entrypoint"}, "body")
        /\ ctxVar[t] = Top(t).own /\ ctxVar[u] = Top(u).own
        /\ ctxVar[t] # ctxVar[u]

\* ====================================================================== FlowContext objects

\* Operations on contexts and on returned copies started in one behaviour.
MaxCtxOps == 4

\* Elements a caller appends to one list held as a metadata value.
MaxListLen == 1

\* The metadata keys the callers use; one of them is spelled like the attribute.
MetaKeys == {"k", "correlation_id"}

\* A metadata value is an immutable one (an int) or a reference to a mutable
\* one (a list object in objs).
IntVal(n) == <<"int", n>>
RefVal(r) == <<"ref", r>>

\* What a read finds under a key that is not there.
Absent == <<"absent", 0>>

DictObj(items) == [kind |-> "dict", items |-> items]
ListObj(items) == [kind |-> "list", items |-> items]
NoItems == [k \in {} |-> Absent]

\* The attributes of one FlowContext object (__slots__, _context.py line 19).
ContextObj(cid, md) == [correlation_id |-> cid, metadata |-> md]

\* The scope variables that no operation on a context object touches.
scopeRest == <<stack, configured, backend, cfgLock, hasOtel, lastExit, nCalls, nResets>>

\* FlowContext.get_value (_context.py line 33): self._metadata.get(key, default).
GetValue(c, key, default) ==
    LET d == objs[ctxs[c].metadata].items
    IN IF key \in DOMAIN d THEN d[key] ELSE default

\* What a caller reads in a value: the int, or the list's elements.
Deep(v) == IF v[1] = "ref" THEN <<"list", objs[v[2]].items>> ELSE v

\* What get_value returns, key by key, on the context c.
View(c) == [k \in MetaKeys |-> Deep(GetValue(c, k, Absent))]

\* What the returned copy s holds, key by key.
SnapView(s) ==
    LET d == objs[snaps[s].ref].items
    IN [k \in MetaKeys |-> IF k \in DOMAIN d THEN Deep(d[k]) ELSE Absent]

\* None as the value a call returned.
RetNone == <<"none", 0>>

\* A FlowContext object as the value a call returned.
RetCtx(c) == <<"ctx", c>>

\* The history record of an operation: what it was, on which context and
\* copy, how it ended, and what every context and copy read before it; for a
\* module-level function also the calling strand, the key, the value returned,
\* the current contexts and the ids generated before it, and the operation
\* before it.
Record(op, c, s, outcome) ==
    [op |-> op, ctx |-> c, snap |-> s, outcome |-> outcome,
     before |-> [i \in 1..Len(ctxs) |-> View(i)],
     snapsBefore |-> [i \in 1..Len(snaps) |-> SnapView(i)],
     strand |-> "", key |-> "", default |-> RetNone, ret |-> RetNone,
     slotBefore |-> slot, idsBefore |-> nextId,
     prev |-> [op |-> lastOp.op, ctx |-> lastOp.ctx, strand |-> lastOp.strand,
               key |-> lastOp.key]]

\* d[k] = v and del d[k] on the dict object r of the object store o.
DictSet(o, r, k, v) == [o EXCEPT ![r].items = Put(@, k, v)]
DictDel(o, r, k) == [o EXCEPT ![r].items = [x \in (DOMAIN @) \ {k} |-> @[x]]]

\* dict(d) (_context.py line 46): a new dict object with the entries of r; a
\* value that is a reference is copied as a reference.
DictCopy(r) == [objs |-> Append(objs, objs[r]), ref |-> Len(objs) + 1]

\* A copy of the dict r that shares the objects its values refer to.
ShallowCopy(r) == [objs |-> Append(objs, objs[r]), ref |-> Len(objs) + 1]

\* The list objects the dict value d refers to.
ListRefs(d) == {d.items[k][2] : k \in {x \in DOMAIN d.items : d.items[x][1] = "ref"}}

\* copy.deepcopy(d) (_context.py line 58): a new dict object and one new list
\* object for each list object d refers to (one, however many keys refer to
\* it: deepcopy's memo); the new dict refers to the new lists.
DeepCopy(r) ==
    LET refs == ListRefs(objs[r])
        n == Len(objs)
        newRef(x) == n + 1 + Cardinality({y \in refs : y <= x})
    IN [objs |-> [i \in 1..(n + 1 + Cardinality(refs)) |->
                    IF i <= n THEN objs[i]
                    ELSE IF i = n + 1
                    THEN DictObj([k \in DOMAIN objs[r].items |->
                                    IF objs[r].items[k][1] = "ref"
                                    THEN RefVal(newRef(objs[r].items[k][2]))
                                    ELSE objs[r].items[k]])
                    ELSE objs[CHOOSE x \in refs : newRef(x) = i]],
        ref |-> n + 1]

\* The value arguments of the callers: an int, a list made for the call, or a
\* list the context already holds under some key.
Args == {[a |-> "int", k |-> ""], [a |-> "new_list", k |-> ""],
         [a |-> "get", k |-> "k"]}

OwnArgs == {arg \in Args : arg.a # "get"}

\* The object store once the caller has built its argument.
ArgObjs(arg) == IF arg.a = "new_list" THEN Append(objs, ListObj(<<>>)) ELSE objs

ArgVal(c, arg) ==
    CASE arg.a = "int" -> IntVal(1)
      [] arg.a = "new_list" -> RefVal(Len(objs) + 1)
      [] arg.a = "get" -> GetValue(c, arg.k, Absent)

ArgOk(c, arg) == arg.a = "get" => GetValue(c, arg.k, Absent)[1] = "ref"

StartCtxOp ==
    /\ nCtxOps < MaxCtxOps
    /\ nCtxOps' = nCtxOps + 1

\* ------------------------------------------------------------------ construction, the slot

\* FlowContext(correlation_id=cid) (_context.py lines 21-27): the id is
\* `correlation_id or uuid4().hex`, the metadata a new empty dict.
NewContext(t, cid) ==
    /\ StartCtxOp
    /\ objs' = Append(objs, DictObj(NoItems))
    /\ ctxs' = Append(ctxs, ContextObj(CidOrFresh(t, cid), Len(objs) + 1))
    /\ made' = Append(made, [born |-> CidOrFresh(t, cid), forkOf |-> 0])
    /\ nextId' = [nextId EXCEPT ![t] = IF CidOrFresh(t, cid) = FreshCid(t)
                                       THEN @ + 1 ELSE @]
    /\ lastOp' = Record("FlowContext", Len(ctxs) + 1, 0, "ok")
    /\ UNCHANGED <<slot, snaps, ctxVar, scopeRest>>

\* _set_context(ctx) (_context.py lines 85-87).
SetContext(t, c) ==
    /\ StartCtxOp
    /\ slot' = [slot EXCEPT ![t] = c]
    /\ ctxVar' = ContextVarSet(t, ctxs[c].correlation_id)
    /\ lastOp' = Record("_set_context", c, 0, "ok")
    /\ UNCHANGED <<ctxs, objs, snaps, made, nextId, scopeRest>>

\* _reset_context() (_context.py lines 90-92), on a strand that has a context.
ResetContext(t) ==
    /\ StartCtxOp
    /\ slot[t] # 0
    /\ slot' = [slot EXCEPT ![t] = 0]
    /\ ctxVar' = ContextVarSet(t, NoCid)
    /\ lastOp' = Record("_reset_context", slot[t], 0, "ok")
    /\ UNCHANGED <<ctxs, objs, snaps, made, nextId, scopeRest>>

\* A set_flow_context_value that makes and installs a new context on every
\* call.
SetFlowContextValueNew(t, k, arg) ==
    /\ StartCtxOp
    /\ arg \in OwnArgs
    /\ objs' = Append(ArgObjs(arg), DictObj(Put(NoItems, k, ArgVal(0, arg))))
    /\ ctxs' = Append(ctxs, ContextObj(CidOrFresh(t, NoCid), Len(ArgObjs(arg)) + 1))
    /\ made' = Append(made, [born |-> CidOrFresh(t, NoCid), forkOf |-> 0])
    /\ slot' = [slot EXCEPT ![t] = Len(ctxs) + 1]
    /\ ctxVar' = ContextVarSet(t, CidOrFresh(t, NoCid))
    /\ nextId' = [nextId EXCEPT ![t] = @ + 1]
    /\ lastOp' = [Record("set_flow_context_value", Len(ctxs) + 1, 0, "ok")
                     EXCEPT !.strand = t, !.key = k]
    /\ UNCHANGED <<snaps, scopeRest>>

\* set_flow_context_value(key, value) (_context.py lines 111-116, 76-82): the
\* current context, or a new one installed as current, gets the value.
SetFlowContextValue(t, k, arg) ==
    /\ StartCtxOp
    /\ IF slot[t] # 0
       THEN /\ ArgOk(slot[t], arg)
            /\ objs' = DictSet(ArgObjs(arg), ctxs[slot[t]].metadata, k,
                               ArgVal(slot[t], arg))
            /\ lastOp' = [Record("set_flow_context_value", slot[t], 0, "ok")
                             EXCEPT !.strand = t, !.key = k]
            /\ UNCHANGED <<ctxs, slot, made, ctxVar, nextId>>
       ELSE /\ arg \in OwnArgs
            /\ objs' = Append(ArgObjs(arg),
                              DictObj(Put(NoItems, k, ArgVal(0, arg))))
            /\ ctxs' = Append(ctxs, ContextObj(CidOrFresh(t, NoCid),
                                               Len(ArgObjs(arg)) + 1))
            /\ made' = Append(made, [born |-> CidOrFresh(t, NoCid), forkOf |-> 0])
            /\ slot' = [slot EXCEPT ![t] = Len(ctxs) + 1]
            /\ ctxVar' = ContextVarSet(t, CidOrFresh(t, NoCid))
            /\ nextId' = [nextId EXCEPT ![t] = @ + 1]
            /\ lastOp' = [Record("set_flow_context_value", Len(ctxs) + 1, 0, "ok")
                             EXCEPT !.strand = t, !.key = k]
    /\ UNCHANGED <<snaps, scopeRest>>

\* ------------------------------------------------------------------ metadata accessors

\* A set_value that stores the value as an attribute of the context named by
\* the key when the context has such an attribute.
SetValueAsAttribute(c, k, arg) ==
    /\ StartCtxOp
    /\ ArgOk(c, arg)
    /\ IF k = "correlation_id"
       THEN /\ ctxs' = [ctxs EXCEPT ![c].correlation_id = ArgVal(c, arg)]
            /\ objs' = ArgObjs(arg)
       ELSE /\ ctxs' = ctxs
            /\ objs' = DictSet(ArgObjs(arg), ctxs[c].metadata, k, ArgVal(c, arg))
    /\ lastOp' = Record("set_value", c, 0, "ok")
    /\ UNCHANGED <<slot, snaps, made, ctxVar, nextId, scopeRest>>

\* FlowContext.set_value (_context.py lines 35-37): self._metadata[key] = value.
SetValue(c, k, arg) ==
    /\ StartCtxOp
    /\ ArgOk(c, arg)
    /\ ctxs' = ctxs
    /\ objs' = DictSet(ArgObjs(arg), ctxs[c].metadata, k, ArgVal(c, arg))
    /\ lastOp' = Record("set_value", c, 0, "ok")
    /\ UNCHANGED <<slot, snaps, made, ctxVar, nextId, scopeRest>>

\* FlowContext.delete_value (_context.py lines 39-41): del self._metadata[key],
\* KeyError when the key is absent.
DeleteValue(c, k) ==
    /\ StartCtxOp
    /\ IF k \in DOMAIN objs[ctxs[c].metadata].items
       THEN /\ objs' = DictDel(objs, ctxs[c].metadata, k)
            /\ lastOp' = Record("delete_value", c, 0, "ok")
       ELSE /\ objs' = objs
            /\ lastOp' = Record("delete_value", c, 0, "NotFound")
    /\ UNCHANGED <<ctxs, slot, snaps, made, ctxVar, nextId, scopeRest>>

\* list.append on the list object r, by a caller that holds it.
ListAppend(r) == [objs EXCEPT ![r].items = Append(@, 1)]

CanAppend(v) == v[1] = "ref" /\ Len(objs[v[2]].items) < MaxListLen

\* ctx.get_value(key).append(...): a caller mutates in place the value it read.
MutateValue(c, k) ==
    /\ StartCtxOp
    /\ CanAppend(GetValue(c, k, Absent))
    /\ objs' = ListAppend(GetValue(c, k, Absent)[2])
    /\ lastOp' = Record("mutate_value", c, 0, "ok")
    /\ UNCHANGED <<ctxs, slot, snaps, made, ctxVar, nextId, scopeRest>>

\* ------------------------------------------------------------------ fork, metadata

\* FlowContext.fork (_context.py lines 50-59): a new context made from the
\* id of this one and a deep copy of its metadata.
Fork(t, c) ==
    /\ StartCtxOp
    /\ LET dc == DeepCopy(ctxs[c].metadata)
           cid == CidOrFresh(t, ctxs[c].correlation_id)
       IN /\ objs' = dc.objs
          /\ ctxs' = Append(ctxs, ContextObj(cid, dc.ref))
          /\ made' = Append(made, [born |-> cid, forkOf |-> c])
          /\ nextId' = [nextId EXCEPT ![t] = IF cid = FreshCid(t) THEN @ + 1 ELSE @]
    /\ lastOp' = Record("fork", c, 0, "ok")
    /\ UNCHANGED <<slot, snaps, ctxVar, scopeRest>>

\* FlowContext.metadata (_context.py lines 43-46): return dict(self._metadata).
Metadata(c) ==
    /\ StartCtxOp
    /\ LET dc == DictCopy(ctxs[c].metadata)
       IN /\ objs' = dc.objs
          /\ snaps' = Append(snaps, [ctx |-> c, ref |-> dc.ref])
    /\ lastOp' = Record("metadata", c, Len(snaps) + 1, "ok")
    /\ UNCHANGED <<ctxs, slot, made, ctxVar, nextId, scopeRest>>

\* ------------------------------------------------------------------ the callers of a returned copy

\* m = ctx.metadata; m[key] = value.
SnapSet(s, k, arg) ==
    /\ StartCtxOp
    /\ objs' = DictSet(ArgObjs(arg), snaps[s].ref, k, ArgVal(0, arg))
    /\ lastOp' = Record("copy_set", snaps[s].ctx, s, "ok")
    /\ UNCHANGED <<ctxs, slot, snaps, made, ctxVar, nextId, scopeRest>>

\* m = ctx.metadata; del m[key], for a key the copy has.
SnapDel(s, k) ==
    /\ StartCtxOp
    /\ k \in DOMAIN objs[snaps[s].ref].items
    /\ objs' = DictDel(objs, snaps[s].ref, k)
    /\ lastOp' = Record("copy_del", snaps[s].ctx, s, "ok")
    /\ UNCHANGED <<ctxs, slot, snaps, made, ctxVar, nextId, scopeRest>>

\* m = ctx.metadata; m[key].append(...).
SnapMutateValue(s, k) ==
    /\ StartCtxOp
    /\ k \in DOMAIN objs[snaps[s].ref].items
    /\ CanAppend(objs[snaps[s].ref].items[k])
    /\ objs' = ListAppend(objs[snaps[s].ref].items[k][2])
    /\ lastOp' = Record("copy_mutate_value", snaps[s].ctx, s, "ok")
    /\ UNCHANGED <<ctxs, slot, snaps, made, ctxVar, nextId, scopeRest>>

\* ------------------------------------------------------------------ the contexts' specification

\* The strand whose operations on context objects are followed: the operations
\* of FlowContext read and write the object alone, whatever strand calls them.
ContextCallers == {"t1"}

ContextNext ==
    \/ \E t \in ContextCallers, cid \in HeaderCids :
          NewContext(t, cid) /\ UNCHANGED <<regVars, dagVars, taskVars, cfgVars>>
    \/ \E t \in ContextCallers, c \in DOMAIN ctxs :
          SetContext(t, c) /\ UNCHANGED <<regVars, dagVars, taskVars, cfgVars>>
    \/ \E t \in ContextCallers :
          ResetContext(t) /\ UNCHANGED <<regVars, dagVars, taskVars, cfgVars>>
    \/ \E t \in ContextCallers, k \in MetaKeys, arg \in Args :
          SetFlowContextValue(t, k, arg) /\ UNCHANGED <<regVars, dagVars, taskVars, cfgVars>>
    \/ \E c \in DOMAIN ctxs, k \in MetaKeys, arg \in Args :
          SetValue(c, k, arg) /\ UNCHANGED <<regVars, dagVars, taskVars, cfgVars>>
    \/ \E c \in DOMAIN ctxs, k \in MetaKeys :
          DeleteValue(c, k) /\ UNCHANGED <<regVars, dagVars, taskVars, cfgVars>>
    \/ \E c \in DOMAIN ctxs, k \in MetaKeys :
          MutateValue(c, k) /\ UNCHANGED <<regVars, dagVars, taskVars, cfgVars>>
    \/ \E t \in ContextCallers, c \in DOMAIN ctxs :
          Fork(t, c) /\ UNCHANGED <<regVars, dagVars, taskVars, cfgVars>>
    \/ \E c \in DOMAIN ctxs :
          Metadata(c) /\ UNCHANGED <<regVars, dagVars, taskVars, cfgVars>>
    \/ \E s \in DOMAIN snaps, k \in MetaKeys, arg \in OwnArgs :
          SnapSet(s, k, arg) /\ UNCHANGED <<regVars, dagVars, taskVars, cfgVars>>
    \/ \E s \in DOMAIN snaps, k \in MetaKeys :
          SnapDel(s, k) /\ UNCHANGED <<regVars, dagVars, taskVars, cfgVars>>
    \/ \E s \in DOMAIN snaps, k \in MetaKeys :
          SnapMutateValue(s, k) /\ UNCHANGED <<regVars, dagVars, taskVars, cfgVars>>

\* FlowContext objects, their metadata and the copies handed out; no decorated
\* function and no registry operation is called.
SpecContext ==
    /\ RegInit
    /\ [][ContextNext]_vars

\* ------------------------------------------------------------------ claims on FlowContext

\* The context d is the parent or the child of a fork with the context c.
ForkPair(c, d) == c # 0 /\ d # c /\ (made[d].forkOf = c \/ made[c].forkOf = d)

\* C12: a forked context has the correlation id of the context it was forked
\* from, and a set_value, a delete_value or an in-place mutation of a value on
\* one of the two leaves what the other one reads under every key as it was.
C12_ForkIsolated ==
    /\ \A c \in DOMAIN ctxs :
           made[c].forkOf # 0 =>
               ctxs[c].correlation_id = ctxs[made[c].forkOf].correlation_id
    /\ lastOp.op \in {"set_value", "set_flow_context_value", "delete_value",
                      "mutate_value", "copy_mutate_value"} =>
           \A d \in DOMAIN lastOp.before :
               ForkPair(lastOp.ctx, d) => View(d) = lastOp.before[d]

\* A list held by a forked context has just been mutated in place, and the
\* context it was forked from still reads the list as it was at the fork.
C12_Witness ==
    /\ lastOp.op = "mutate_value"
    /\ lastOp.ctx \in DOMAIN ctxs
    /\ made[lastOp.ctx].forkOf # 0
    /\ View(lastOp.ctx) # lastOp.before[lastOp.ctx]
    /\ View(made[lastOp.ctx].forkOf) # View(lastOp.ctx)
    /\ \E k \in MetaKeys : View(made[lastOp.ctx].forkOf)[k] = <<"list", <<>>>>

\* C13: the correlation id of every context is the id it was constructed with.
C13_IdImmutable ==
    \A c \in DOMAIN ctxs : ctxs[c].correlation_id = made[c].born

\* A context that holds a value under the key "correlation_id", that has been
\* forked and that is the current one of a strand.
C13_Witness ==
    \E c \in DOMAIN ctxs :
        /\ GetValue(c, "correlation_id", Absent) # Absent
        /\ \E d \in DOMAIN ctxs : made[d].forkOf = c
        /\ \E t \in Strands : slot[t] = c

\* C14: the dict that FlowContext.metadata returned is a point-in-time copy.
\* Setting or deleting a key of the copy, or mutating in place a value reached
\* through it, leaves what the source context reads under every key as it
\* was; a set_value or delete_value on a context leaves every copy returned
\* before as it was.
C14_MetadataIsCopy ==
    /\ lastOp.op \in {"copy_set", "copy_del", "copy_mutate_value"} =>
           View(lastOp.ctx) = lastOp.before[lastOp.ctx]
    /\ lastOp.op \in {"set_value", "set_flow_context_value", "delete_value"} =>
           \A s \in DOMAIN lastOp.snapsBefore : SnapView(s) = lastOp.snapsBefore[s]

\* ====================================================================== DAG
\* generate_dag (src/penstock/_dag.py) over a registry whose dicts keep the
\* order of insertion.

\* StepInfo records in one registry
MaxDagSteps == 2
\* generate_dag calls in one behaviour
MaxRenders == 2

Registries == {"A", "B"}

\* Step names are strings: sequences of code points.
NameA == <<97>>
NameAB == <<97, 98>>
NameUpperB == <<66>>

AllNames == {NameA, NameAB, NameUpperB}

DagInfos ==
    { StepInfo(NameUpperB, "f", <<>>, TRUE),
      StepInfo(NameA, "f", <<>>, FALSE),
      StepInfo(NameA, "f", <<NameAB, NameAB>>, FALSE),
      StepInfo(NameAB, "f", <<NameUpperB, NameA>>, FALSE) }

Formats == {"mermaid", "dot"}

\* The flow the steps belong to.
DagFlows == {"f"}

\* Path(output).write_text(diagram): the file holds the text.
File(text) == [exists |-> TRUE, text |-> text]

\* _registry.register on an ordered registry: one step, the lock makes it so.
\* A new (flow, name) key is appended; an existing key keeps its place and its
\* record (an equal record is a no-op, a different one raises).
DagRegister(r, info) ==
    /\ Len(dreg[r]) < MaxDagSteps
    /\ dreg' = [dreg EXCEPT ![r] =
                   IF \E x \in 1..Len(@) : /\ @[x].flow_name = info.flow_name
                                           /\ @[x].name = info.name
                   THEN @
                   ELSE Append(@, info)]
    /\ UNCHANGED <<dout, dfile, nRenders>>

\* _registry.get_flow: the flow's steps in insertion order; <<>> when the flow
\* has no step (FlowNotFoundError).
FlowSteps(r, flow) ==
    LET InFlowOf(i) == i.flow_name = flow IN SelectSeq(dreg[r], InFlowOf)

\* Python's < on str.
StrLess(x, y) ==
    \E i \in 1..(Len(x) + 1) :
        /\ \A j \in 1..(i - 1) : IF j <= Len(y) THEN x[j] = y[j] ELSE FALSE
        /\ i <= Len(y)
        /\ IF i > Len(x) THEN TRUE ELSE x[i] < y[i]

\* Python's < on tuples of str.
TupLess(x, y) ==
    \E i \in 1..(Len(x) + 1) :
        /\ \A j \in 1..(i - 1) : IF j <= Len(y) THEN x[j] = y[j] ELSE FALSE
        /\ i <= Len(y)
        /\ IF i > Len(x) THEN TRUE ELSE StrLess(x[i], y[i])

RECURSIVE Insert(_, _)
Insert(x, s) ==
    IF s = <<>> THEN <<x>>
    ELSE IF TupLess(x, Head(s)) THEN <<x>> \o s
    ELSE <<Head(s)>> \o Insert(x, Tail(s))

Unsorted(s) == s

\* list.sort() and sorted(): ascending, stable.
RECURSIVE Sorted(_)
Sorted(s) ==
    IF s = <<>> THEN <<>>
    ELSE Insert(s[Len(s)], Sorted(SubSeq(s, 1, Len(s) - 1)))

EdgesOfStepReversed(i) == [x \in 1..Len(i.after) |-> <<i.name, i.after[x]>>]

\* for predecessor in step.after: (predecessor, step.name)
EdgesOfStep(i) == [x \in 1..Len(i.after) |-> <<i.after[x], i.name>>]

\* The edge list before it is sorted: steps in dict order, predecessors in
\* the order of the declaration.
RECURSIVE EdgesOf(_)
EdgesOf(d) ==
    IF d = <<>> THEN <<>> ELSE EdgesOfStep(Head(d)) \o EdgesOf(Tail(d))

NodesInOrder(d) == [x \in 1..Len(d) |-> <<d[x].name>>]

\* sorted(info.steps): the step names, ascending.
StandaloneNodes(d) == Sorted([x \in 1..Len(d) |-> <<d[x].name>>])

Header == <<"graph TD">>
NodeLine(n) == <<"    ", n>>
EdgeLine(src, dst) == <<"    ", src, " --> ", dst>>

\* A diagram that lists every step as a node before the edges.
DiagramWithNodes(d) ==
    LET edges == Sorted(EdgesOf(d))
        nodes == StandaloneNodes(d)
    IN  <<Header>> \o
        [x \in 1..Len(nodes) |-> NodeLine(nodes[x][1])] \o
        [x \in 1..Len(edges) |-> EdgeLine(edges[x][1], edges[x][2])]

\* The diagram as its lines; each is followed by a newline in the text.
Diagram(d) ==
    LET edges == Sorted(EdgesOf(d))
        nodes == StandaloneNodes(d)
    IN  <<Header>> \o
        (IF Len(edges) = 0
         THEN [x \in 1..Len(nodes) |-> NodeLine(nodes[x][1])]
         ELSE [x \in 1..Len(edges) |-> EdgeLine(edges[x][1], edges[x][2])])

Rendered(r, flow, format, out, outcome, ret, after) ==
    /\ dout' = [dout EXCEPT ![r] =
                   [called |-> TRUE, outcome |-> outcome, flow |-> flow,
                    format |-> format, out |-> out, steps |-> FlowSteps(r, flow),
                    ret |-> ret, fileBefore |-> dfile, fileAfter |-> after]]
    /\ dfile' = after
    /\ nRenders' = nRenders + 1
    /\ UNCHANGED dreg

GenerateDagLookupFirst(r, flow, format, out) ==
    /\ nRenders < MaxRenders
    /\ IF FlowSteps(r, flow) = <<>>
       THEN Rendered(r, flow, format, out, "FlowNotFoundError", <<>>, dfile)
       ELSE IF format # "mermaid"
       THEN Rendered(r, flow, format, out, "ValueError", <<>>, dfile)
       ELSE LET diagram == Diagram(FlowSteps(r, flow)) IN
            IF out
            THEN Rendered(r, flow, format, out, "ok", <<>>, File(diagram))
            ELSE Rendered(r, flow, format, out, "ok", diagram, dfile)

\* generate_dag(flow, format=format, output=path or None)
GenerateDag(r, flow, format, out) ==
    /\ nRenders < MaxRenders
    /\ IF format # "mermaid"
       THEN Rendered(r, flow, format, out, "ValueError", <<>>, dfile)
       ELSE IF FlowSteps(r, flow) = <<>>
       THEN Rendered(r, flow, format, out, "FlowNotFoundError", <<>>, dfile)
       ELSE LET diagram == Diagram(FlowSteps(r, flow)) IN
            IF out
            THEN Rendered(r, flow, format, out, "ok", <<>>, File(diagram))
            ELSE Rendered(r, flow, format, out, "ok", diagram, dfile)

DagNext ==
    \E r \in Registries :
        \/ \E info \in DagInfos :
               DagRegister(r, info) /\ UNCHANGED <<regVars, scopeVars, objVars, cfgVars, taskVars>>
        \/ \E flow \in DagFlows, format \in Formats, out \in BOOLEAN :
               GenerateDag(r, flow, format, out)
               /\ UNCHANGED <<regVars, scopeVars, objVars, cfgVars, taskVars>>

SpecDag ==
    RegInit /\ [][DagNext]_vars

\* The text a call produced: the returned string, or what it wrote.
TextOf(x) == IF x.out THEN x.fileAfter.text ELSE x.ret

Renders == {dout[r] : r \in Registries}

SeqRange(s) == {s[x] : x \in 1..Len(s)}

\* C21: a format other than "mermaid" is rejected with ValueError before
\* anything else: whether or not the flow is registered, nothing is returned
\* and the file at the output path is left as it was.
C21_FormatFirst ==
    \A x \in Renders :
        (x.called /\ x.format # "mermaid") =>
            /\ x.outcome = "ValueError"
            /\ x.ret = <<>>
            /\ x.fileAfter = x.fileBefore

\* An unsupported format asked for a flow that has no step, with an output
\* path given.
C21_Witness ==
    \E r \in Registries :
        /\ dout[r].called
        /\ dout[r].format = "dot"
        /\ dout[r].steps = <<>>
        /\ dout[r].out
        /\ dout[r].outcome = "ValueError"

\* C22: the diagram depends on the set of registered steps only: two
\* successful calls for the same flow over the same StepInfo records give the
\* same text, whatever the order in which the steps were registered.
C22_Deterministic ==
    \A x, y \in Renders :
        (/\ x.called /\ y.called
         /\ x.outcome = "ok" /\ y.outcome = "ok"
         /\ x.flow = y.flow
         /\ SeqRange(x.steps) = SeqRange(y.steps)) =>
            TextOf(x) = TextOf(y)

\* Two registries hold the same two steps in different orders, each step
\* declares a predecessor, and both were rendered.
C22_Witness ==
    /\ dout["A"].called /\ dout["B"].called
    /\ dout["A"].outcome = "ok" /\ dout["B"].outcome = "ok"
    /\ Len(dout["A"].steps) = 2
    /\ dout["A"].steps # dout["B"].steps
    /\ SeqRange(dout["A"].steps) = SeqRange(dout["B"].steps)
    /\ \A i \in SeqRange(dout["A"].steps) : i.after # <<>>
    /\ EdgesOf(dout["A"].steps) # EdgesOf(dout["B"].steps)

\* Occurrences of p in the after tuple of the step named s.
Occurrences(d, p, s) ==
    Cardinality(UNION {{<<x, k>> : k \in {j \in 1..Len(d[x].after) :
                                               d[x].after[j] = p}} :
                       x \in {y \in 1..Len(d) : d[y].name = s}})

DeclaresEdges(d) == \E x \in 1..Len(d) : d[x].after # <<>>

\* C23: when some step declares a predecessor, the text is the header
\* followed by one edge line per occurrence of a predecessor in an after
\* tuple (a repeated occurrence gives a repeated line) and nothing else, the
\* lines ascending by (predecessor, step).
C23_EdgeLines ==
    \A x \in Renders :
        (x.called /\ x.outcome = "ok" /\ DeclaresEdges(x.steps)) =>
            LET text == TextOf(x) IN
            /\ text[1] = Header
            /\ \A k \in 2..Len(text) :
                   \E p, s \in AllNames : text[k] = EdgeLine(p, s)
            /\ \A p, s \in AllNames :
                   Cardinality({k \in 2..Len(text) : text[k] = EdgeLine(p, s)})
                       = Occurrences(x.steps, p, s)
            /\ \A k \in 2..(Len(text) - 1) :
                   ~TupLess(<<text[k + 1][2], text[k + 1][4]>>,
                            <<text[k][2], text[k][4]>>)

\* A diagram of four edge lines, two of them the same, from a flow whose
\* edges in declaration order are not ascending.
C23_Witness ==
    \E r \in Registries :
        /\ dout[r].called /\ dout[r].outcome = "ok"
        /\ Len(TextOf(dout[r])) = 5
        /\ \E k \in 2..4 : TextOf(dout[r])[k] = TextOf(dout[r])[k + 1]
        /\ Sorted(EdgesOf(dout[r].steps)) # EdgesOf(dout[r].steps)

\* C24: when no step declares a predecessor, the text is the header followed
\* by one node line per step, ascending by name, and no edge line.
C24_NodeLines ==
    \A x \in Renders :
        (x.called /\ x.outcome = "ok" /\ ~DeclaresEdges(x.steps)) =>
            LET text == TextOf(x) IN
            /\ text[1] = Header
            /\ Len(text) = 1 + Len(x.steps)
            /\ \A i \in SeqRange(x.steps) :
                   \E k \in 2..Len(text) : text[k] = NodeLine(i.name)
            /\ \A k \in 2..Len(text) :
                   \E i \in SeqRange(x.steps) : text[k] = NodeLine(i.name)
            /\ \A k \in 2..(Len(text) - 1) :
                   StrLess(text[k][2], text[k + 1][2])

\* Two steps without predecessors, registered in descending order of name
\* ("a" before "B"),
\* rendered to the output file.
C24_Witness ==
    \E r \in Registries :
        /\ dout[r].called /\ dout[r].outcome = "ok" /\ dout[r].out
        /\ Len(dout[r].steps) = 2
        /\ StrLess(dout[r].steps[2].name, dout[r].steps[1].name)
        /\ dfile.exists
        /\ dfile.text = <<Header, NodeLine(NameUpperB), NodeLine(NameA)>>

\* ====================================================================== spans

\* C25: a span emits one start event and then one end event.  While the block
\* runs the start event alone has been emitted; when the block has ended,
\* whether it returned, raised or was cancelled, the end event has followed
\* and the call ends the way the block ended: a failure reaches the caller.
C25_SpanEvents ==
    \A t \in Strands :
        /\ \A x \in 1..Len(stack[t]) :
               stack[t][x].events = IF stack[t][x].span THEN <<"step.start">> ELSE <<>>
        /\ lastExit[t].span =>
               /\ lastExit[t].events = <<"step.start", "step.end">>
               /\ lastExit[t].outcome = lastExit[t].body

\* A step whose wrapped logic raised inside the span of the logging backend,
\* called from an entrypoint whose span is still open.
C25_Witness ==
    \E t \in Strands :
        /\ lastExit[t].kind = "step"
        /\ lastExit[t].span
        /\ lastExit[t].body = "raise"
        /\ stack[t] # <<>>
        /\ Top(t).span
        /\ Top(t).backend = "logging"

\* ====================================================================== the module-level accessors

\* The defaults callers pass to get_flow_context_value: None, or a value.
Defaults == {RetNone, IntVal(0)}

\* A current_flow_id that goes through _get_or_create_context.
CurrentFlowIdCreating(t) ==
    /\ StartCtxOp
    /\ IF slot[t] # 0
       THEN /\ lastOp' = [Record("current_flow_id", slot[t], 0, "ok")
                             EXCEPT !.strand = t, !.ret = ctxs[slot[t]].correlation_id]
            /\ UNCHANGED <<ctxs, objs, slot, made, ctxVar, nextId>>
       ELSE /\ objs' = Append(objs, DictObj(NoItems))
            /\ ctxs' = Append(ctxs, ContextObj(FreshCid(t), Len(objs) + 1))
            /\ made' = Append(made, [born |-> FreshCid(t), forkOf |-> 0])
            /\ slot' = [slot EXCEPT ![t] = Len(ctxs) + 1]
            /\ ctxVar' = ContextVarSet(t, FreshCid(t))
            /\ nextId' = [nextId EXCEPT ![t] = @ + 1]
            /\ lastOp' = [Record("current_flow_id", Len(ctxs) + 1, 0, "ok")
                             EXCEPT !.strand = t, !.ret = FreshCid(t)]
    /\ UNCHANGED <<snaps, scopeRest>>

\* current_flow_id() (_context.py lines 100-103).
CurrentFlowId(t) ==
    /\ StartCtxOp
    /\ lastOp' = [Record("current_flow_id", slot[t], 0, "ok")
                     EXCEPT !.strand = t,
                            !.ret = IF slot[t] # 0 THEN ctxs[slot[t]].correlation_id
                                    ELSE RetNone]
    /\ UNCHANGED <<ctxs, objs, slot, snaps, made, ctxVar, nextId, scopeRest>>

\* get_flow_context() (_context.py lines 106-108).
GetFlowContext(t) ==
    /\ StartCtxOp
    /\ lastOp' = [Record("get_flow_context", slot[t], 0, "ok")
                     EXCEPT !.strand = t,
                            !.ret = IF slot[t] # 0 THEN RetCtx(slot[t]) ELSE RetNone]
    /\ UNCHANGED <<ctxs, objs, slot, snaps, made, ctxVar, nextId, scopeRest>>

\* get_flow_context_value(key, default) (_context.py lines 119-127).
GetFlowContextValue(t, k, default) ==
    /\ StartCtxOp
    /\ lastOp' = [Record("get_flow_context_value", slot[t], 0, "ok")
                     EXCEPT !.strand = t, !.key = k, !.default = default,
                            !.ret = IF slot[t] # 0 THEN GetValue(slot[t], k, default)
                                    ELSE default]
    /\ UNCHANGED <<ctxs, objs, slot, snaps, made, ctxVar, nextId, scopeRest>>

\* ------------------------------------------------------------------ get_correlation_id

\* What OpenTelemetry's current span gives as a trace id: none (the invalid
\* span, outside every span) or the id of the trace the strand is in.
TraceIds == {EmptyCid, <<"trace", 1>>}

\* LoggingBackend.get_correlation_id (backends/logging.py lines 40-44):
\* current_flow_id(), or _get_or_create_context().correlation_id.
LoggingGetCorrelationId(t) ==
    /\ StartCtxOp
    /\ IF slot[t] # 0
       THEN /\ lastOp' = [Record("get_correlation_id", slot[t], 0, "ok")
                             EXCEPT !.strand = t, !.key = "logging",
                                    !.ret = ctxs[slot[t]].correlation_id]
            /\ UNCHANGED <<ctxs, objs, slot, made, ctxVar, nextId>>
       ELSE /\ objs' = Append(objs, DictObj(NoItems))
            /\ ctxs' = Append(ctxs, ContextObj(FreshCid(t), Len(objs) + 1))
            /\ made' = Append(made, [born |-> FreshCid(t), forkOf |-> 0])
            /\ slot' = [slot EXCEPT ![t] = Len(ctxs) + 1]
            /\ ctxVar' = ContextVarSet(t, FreshCid(t))
            /\ nextId' = [nextId EXCEPT ![t] = @ + 1]
            /\ lastOp' = [Record("get_correlation_id", Len(ctxs) + 1, 0, "ok")
                             EXCEPT !.strand = t, !.key = "logging",
                                    !.ret = FreshCid(t)]
    /\ UNCHANGED <<snaps, scopeRest>>

\* OTelBackend.get_correlation_id (backends/otel.py lines 45-50): the trace
\* id of OpenTelemetry's current span as 32 hex digits, or "".  An OTelBackend
\* exists only where opentelemetry is installed (lines 29-35).
OTelGetCorrelationId(t, trace) ==
    /\ StartCtxOp
    /\ hasOtel
    /\ lastOp' = [Record("get_correlation_id", slot[t], 0, "ok")
                     EXCEPT !.strand = t, !.key = "otel", !.ret = trace]
    /\ UNCHANGED <<ctxs, objs, slot, snaps, made, ctxVar, nextId, scopeRest>>

\* ------------------------------------------------------------------ the accessors' specification

\* The values the callers of the module-level functions store.
AccessArgs == {arg \in Args : arg.a = "int"}

AccessNext ==
    \E t \in Strands :
        \/ \E cid \in HeaderCids : NewContext(t, cid) /\ UNCHANGED <<regVars, dagVars, taskVars, cfgVars>>
        \/ \E c \in DOMAIN ctxs : SetContext(t, c) /\ UNCHANGED <<regVars, dagVars, taskVars, cfgVars>>
        \/ ResetContext(t) /\ UNCHANGED <<regVars, dagVars, taskVars, cfgVars>>
        \/ \E k \in MetaKeys, arg \in AccessArgs :
              SetFlowContextValue(t, k, arg) /\ UNCHANGED <<regVars, dagVars, taskVars, cfgVars>>
        \/ CurrentFlowId(t) /\ UNCHANGED <<regVars, dagVars, taskVars, cfgVars>>
        \/ GetFlowContext(t) /\ UNCHANGED <<regVars, dagVars, taskVars, cfgVars>>
        \/ \E k \in MetaKeys, default \in Defaults :
              GetFlowContextValue(t, k, default) /\ UNCHANGED <<regVars, dagVars, taskVars, cfgVars>>
        \/ LoggingGetCorrelationId(t) /\ UNCHANGED <<regVars, dagVars, taskVars, cfgVars>>
        \/ \E trace \in TraceIds :
              OTelGetCorrelationId(t, trace) /\ UNCHANGED <<regVars, dagVars, taskVars, cfgVars>>

\* The module-level functions of _context.py and the backends'
\* get_correlation_id, called from both strands.
SpecAccess ==
    /\ ScopeInit
    /\ [][AccessNext]_vars

\* C26: get_correlation_id of either backend returns the correlation id of
\* the calling strand's current context and leaves it current; with no
\* current context it creates one, installs it and returns its id.
C26_CorrelationIdOfContext ==
    lastOp.op = "get_correlation_id" =>
        LET t == lastOp.strand IN
        /\ slot[t] # 0
        /\ lastOp.ret = ctxs[slot[t]].correlation_id
        /\ IF lastOp.slotBefore[t] # 0
           THEN slot[t] = lastOp.slotBefore[t] /\ Len(ctxs) = Len(lastOp.before)
           ELSE slot[t] = Len(ctxs) /\ Len(ctxs) = Len(lastOp.before) + 1

\* C27: current_flow_id, get_flow_context and get_flow_context_value create
\* and install nothing: every strand's current context, the contexts that
\* exist and the ids generated are as before the call; on a strand with no
\* current context they return None (get_flow_context_value: the default),
\* on a strand with one its id, the context, the value under the key.
C27_ReadOnlyAccessors ==
    lastOp.op \in {"current_flow_id", "get_flow_context", "get_flow_context_value"} =>
        LET t == lastOp.strand IN
        /\ slot = lastOp.slotBefore
        /\ Len(ctxs) = Len(lastOp.before)
        /\ nextId = lastOp.idsBefore
        /\ \A c \in DOMAIN ctxs : View(c) = lastOp.before[c]
        /\ (ctxVar[t] = NoCid) = (slot[t] = 0)
        /\ slot[t] = 0 => lastOp.ret = lastOp.default
        /\ slot[t] # 0 =>
               lastOp.ret =
                   CASE lastOp.op = "current_flow_id" -> ctxs[slot[t]].correlation_id
                     [] lastOp.op = "get_flow_context" -> RetCtx(slot[t])
                     [] lastOp.op = "get_flow_context_value" ->
                            GetValue(slot[t], lastOp.key, lastOp.default)

\* get_flow_context_value has returned the supplied default on a strand with
\* no current context, right after current_flow_id returned None there, while
\* the other strand has a current context.
C27_Witness ==
    /\ lastOp.op = "get_flow_context_value"
    /\ lastOp.prev.op = "current_flow_id"
    /\ lastOp.prev.strand = lastOp.strand
    /\ slot[lastOp.strand] = 0
    /\ lastOp.ret = IntVal(0)
    /\ \E u \in Strands : slot[u] # 0

\* C28: set_flow_context_value on a strand with a current context stores
\* into that context: it stays current, no context is made and no id
\* generated, and the other keys read as before.  With no current context a
\* new context with a new id is installed and holds the value.  So the second
\* of two calls in a row on a strand stores into the context of the first.
C28_GetOrCreate ==
    lastOp.op = "set_flow_context_value" =>
        LET t == lastOp.strand IN
        /\ slot[t] = lastOp.ctx
        /\ GetValue(lastOp.ctx, lastOp.key, Absent) # Absent
        /\ IF lastOp.slotBefore[t] # 0
           THEN /\ lastOp.ctx = lastOp.slotBefore[t]
                /\ Len(ctxs) = Len(lastOp.before)
                /\ nextId = lastOp.idsBefore
                /\ \A k \in MetaKeys \ {lastOp.key} :
                       View(lastOp.ctx)[k] = lastOp.before[lastOp.ctx][k]
           ELSE /\ lastOp.ctx = Len(ctxs)
                /\ Len(ctxs) = Len(lastOp.before) + 1
                /\ \A c \in 1..Len(lastOp.before) :
                       ctxs[c].correlation_id # ctxs[lastOp.ctx].correlation_id
        /\ (lastOp.prev.op = "set_flow_context_value" /\ lastOp.prev.strand = t) =>
               /\ lastOp.ctx = lastOp.prev.ctx
               /\ nextId = lastOp.idsBefore
               /\ GetValue(lastOp.ctx, lastOp.prev.key, Absent) # Absent

\* Two set_flow_context_value calls in a row under different keys on a strand
\* that had no current context before the first.
C28_Witness ==
    /\ lastOp.op = "set_flow_context_value"
    /\ lastOp.prev.op = "set_flow_context_value"
    /\ lastOp.prev.strand = lastOp.strand
    /\ lastOp.prev.key # lastOp.key
    /\ Len(ctxs) = 1
    /\ \A k \in MetaKeys : GetValue(1, k, Absent) # Absent

\* ====================================================================== the backend configuration

\* C29: every get_backend() call returns a backend instance: it does not end
\* with the AssertionError of `assert _backend is not None`, and what it
\* returns is not None.
C29_AlwaysABackend ==
    \A t \in Strands :
        got[t].called => (got[t].outcome = "return" /\ got[t].id # 0)

\* C30: the get_backend() calls that ran wholly between the end of one
\* configure or reset call and the start of the next all return the same
\* instance; get_backend runs the auto-detection at most once between two such
\* calls; and after a reset the instance returned is one made after the reset.
C30_OneInstance ==
    /\ \A t \in Strands :
           got[t].inWin =>
               /\ got[t].outcome = "return" /\ got[t].id # 0
               /\ got[t].last = "reset" => got[t].id > got[t].base
               /\ \A u \in Strands :
                      (got[u].inWin /\ got[u].win = got[t].win) => got[u].id = got[t].id
    /\ cfgHist.detects <= 1

\* After a configure and a reset, both strands called get_backend() on the
\* unconfigured state at the same time: both took the lock, one of them ran
\* the auto-detection, and both returned its instance.
C30_Witness ==
    /\ \A t \in Strands :
           /\ got[t].inWin /\ got[t].slow /\ got[t].last = "reset"
           /\ got[t].base > 0
    /\ \E t, u \in Strands :
           t # u /\ got[t].detected /\ ~got[u].detected /\ got[t].id = got[u].id

\* ====================================================================== flow_task messages

\* Task messages published in one behaviour.
MaxMsgs == 2

\* A headers dict without the key.
NoHeaders == [k \in {} |-> NoCid]

\* Headers that carry a fixed id whatever context the producer has.
PenstockHeadersFixed(cid) ==
    IF cid # NoCid THEN [k \in {"penstock_correlation_id"} |-> ProducerCid] ELSE NoHeaders

\* _penstock_headers() (contrib/celery.py lines 57-61) under the current
\* context cid: {"penstock_correlation_id": cid}, or {} with no context.
PenstockHeaders(cid) ==
    IF cid # NoCid THEN [k \in {"penstock_correlation_id"} |-> cid] ELSE NoHeaders

\* headers.get("penstock_correlation_id") (contrib/celery.py line 47).
HeadersGet(headers) ==
    IF "penstock_correlation_id" \in DOMAIN headers
    THEN headers["penstock_correlation_id"]
    ELSE NoCid

\* A producer calls task._penstock_headers() from the top level or from
\* wrapped logic and publishes a message with the result.
Publish(t) ==
    /\ Cardinality(msgs) < MaxMsgs
    /\ IF stack[t] = <<>> THEN TRUE ELSE Top(t).pc = "body"
    /\ msgs' = msgs \cup {[headers |-> PenstockHeaders(ctxVar[t]),
                            producer |-> ctxVar[t]]}
    /\ UNCHANGED scopeVars

\* The flow_task wrapper (contrib/celery.py lines 43-52) invoked with the
\* headers of the message m as __penstock_headers__.
FlowTaskDeliver(t, m) ==
    /\ CanCall(t)
    /\ nCalls' = nCalls + 1
    /\ LET cid == HeadersGet(m.headers) IN
       /\ nextId' = [nextId EXCEPT ![t] = IF CidOrFresh(t, cid) = FreshCid(t)
                                          THEN @ + 1 ELSE @]
       /\ ctxVar' = ContextVarSet(t, CidOrFresh(t, cid))
       /\ stack' = [stack EXCEPT ![t] =
                      Append(@, [Frame("flow_task", "body", CidOrFresh(t, cid), ctxVar[t])
                                   EXCEPT !.ran = TRUE, !.given = TRUE,
                                          !.producer = m.producer])]
    /\ UNCHANGED <<configured, backend, cfgLock, hasOtel, lastExit, nResets>>

TaskNext ==
    \E t \in Strands :
        \/ EntrypointCall(t) /\ UNCHANGED <<regVars, objVars, dagVars, cfgVars, taskVars>>
        \/ GetBackendCheck(t) /\ UNCHANGED <<regVars, objVars, dagVars, cfgVars, taskVars>>
        \/ GetBackendAssert(t) /\ UNCHANGED <<regVars, objVars, dagVars, taskVars>>
        \/ GetBackendLock(t) /\ UNCHANGED <<regVars, objVars, dagVars, cfgVars, taskVars>>
        \/ GetBackendLocked(t) /\ UNCHANGED <<regVars, objVars, dagVars, taskVars>>
        \/ SpanEnter(t) /\ UNCHANGED <<regVars, objVars, dagVars, cfgVars, taskVars>>
        \/ \E outcome \in AllOutcomes :
              EntrypointExit(t, outcome)
              /\ UNCHANGED <<regVars, objVars, dagVars, cfgVars, taskVars>>
        \/ Publish(t) /\ UNCHANGED <<regVars, objVars, dagVars, cfgVars>>
        \/ FlowTaskCall(t, NoCid) /\ UNCHANGED <<regVars, objVars, dagVars, cfgVars, taskVars>>
        \/ \E m \in msgs :
              FlowTaskDeliver(t, m)
              /\ UNCHANGED <<regVars, objVars, dagVars, cfgVars, taskVars>>
        \/ \E outcome \in AllOutcomes :
              FlowTaskExit(t, outcome)
              /\ UNCHANGED <<regVars, objVars, dagVars, cfgVars, taskVars>>

\* Producers inside entrypoints and tasks publish messages; workers run the
\* tasks with the headers of a message, or with none.
SpecTask ==
    /\ RegInit
    /\ [][TaskNext]_vars

\* The correlation ids in use: the ids the active calls installed, the
\* current contexts, and the ids the published messages carry.
IdsInUse ==
    UNION {{stack[t][i].own : i \in DOMAIN stack[t]} : t \in Strands}
        \cup {ctxVar[t] : t \in Strands}
        \cup {m.producer : m \in msgs}

HeadersCarryId == \A m \in msgs : HeadersGet(m.headers) = m.producer

\* In this step a flow_task call begins on strand t: the wrapped function
\* starts under the producer's id when the headers given carry it, and
\* otherwise under an id that was not in use.
TaskStartsUnderId ==
    \A t \in Strands :
        (/\ Len(stack'[t]) = Len(stack[t]) + 1
         /\ stack'[t][Len(stack'[t])].kind = "flow_task") =>
            LET f == stack'[t][Len(stack'[t])] IN
            /\ f.pc = "body"
            /\ ctxVar'[t] = f.own
            /\ IF f.given /\ f.producer # NoCid
               THEN f.own = f.producer
               ELSE f.own # NoCid /\ f.own \notin IdsInUse

OrderInfos ==
    { StepInfo("c", "f", <<"a", "b">>, FALSE),
      StepInfo("c", "f", <<"b", "a">>, FALSE),
      StepInfo("c", "f", <<"a", "b">>, TRUE),
      StepInfo("c", "g", <<>>, TRUE) }

OrderNext ==
    \E t \in Strands :
        \/ \E info \in OrderInfos : RegisterCall(t, info) /\ UNCHANGED <<scopeVars, objVars, dagVars, taskVars, cfgVars>>
        \/ Acquire(t) /\ UNCHANGED <<scopeVars, objVars, dagVars, taskVars, cfgVars>>
        \/ RegisterSetDefault(t) /\ UNCHANGED <<scopeVars, objVars, dagVars, taskVars, cfgVars>>
        \/ RegisterCheck(t) /\ UNCHANGED <<scopeVars, objVars, dagVars, taskVars, cfgVars>>
        \/ \E name \in FlowNames : GetFlowCall(t, name) /\ UNCHANGED <<scopeVars, objVars, dagVars, taskVars, cfgVars>>
        \/ GetFlowLookup(t) /\ UNCHANGED <<scopeVars, objVars, dagVars, taskVars, cfgVars>>
        \/ GetFlowCopy(t) /\ UNCHANGED <<scopeVars, objVars, dagVars, taskVars, cfgVars>>
        \/ ClearCall(t) /\ UNCHANGED <<scopeVars, objVars, dagVars, taskVars, cfgVars>>
        \/ ClearBody(t) /\ UNCHANGED <<scopeVars, objVars, dagVars, taskVars, cfgVars>>

\* Strands that declare the same step again, look flows up and clear.
SpecOrder ==
    /\ RegInit
    /\ [][OrderNext]_vars

\* The two StepInfo values agree when `after` is read as a set of names.
SameAsSet(x, y) ==
    /\ x.name = y.name
    /\ x.flow_name = y.flow_name
    /\ x.is_entrypoint = y.is_entrypoint
    /\ SeqRange(x.after) = SeqRange(y.after)

\* C32: a register call that finds, under its (flow, step) key, an entry with
\* the same entrypoint flag and the same predecessor names, in whatever order,
\* returns without error and leaves the registry as it found it.
C32_AfterComparedAsSet ==
    \A t \in Strands :
        (/\ result[t].op = "register"
         /\ result[t].prior # <<>>
         /\ SameAsSet(result[t].prior[1], result[t].info)) =>
            /\ result[t].outcome = "ok"
            /\ result[t].unchanged

\* ------------------------------------------------------------------ isolated steps

\* The names the steps of d declare as predecessors.
Predecessors(d) == UNION {SeqRange(d[x].after) : x \in 1..Len(d)}

StepNamesOf(d) == {d[x].name : x \in 1..Len(d)}

\* The registered steps that take part in no edge.
Isolated(d) ==
    {d[x].name : x \in {y \in 1..Len(d) : d[y].after = <<>>}} \ Predecessors(d)

IsEdgeLine(l) == Len(l) = 4 /\ l[1] = "    " /\ l[3] = " --> "

\* C33: when some step declares a predecessor, every line after the header is
\* an edge line; a registered step that takes part in no edge is named by no
\* line, and a declared predecessor that is not a registered step has its
\* edge line all the same.
C33_EdgesOnly ==
    \A x \in Renders :
        (x.called /\ x.outcome = "ok" /\ DeclaresEdges(x.steps)) =>
            LET text == TextOf(x) IN
            /\ text[1] = Header
            /\ \A k \in 2..Len(text) : IsEdgeLine(text[k])
            /\ \A n \in Isolated(x.steps) :
                   \A k \in 2..Len(text) : text[k][2] # n /\ text[k][4] # n
            /\ \A i \in SeqRange(x.steps) :
                   \A p \in SeqRange(i.after) \ StepNamesOf(x.steps) :
                       \E k \in 2..Len(text) : text[k] = EdgeLine(p, i.name)

\* A rendered flow of two steps: one declares a predecessor that is not
\* registered, the other takes part in no edge.
C33_Witness ==
    \E r \in Registries :
        /\ dout[r].called /\ dout[r].outcome = "ok"
        /\ Len(dout[r].steps) = 2
        /\ Isolated(dout[r].steps) # {}
        /\ Predecessors(dout[r].steps) \ StepNamesOf(dout[r].steps) # {}
        /\ Len(TextOf(dout[r])) > 1

\* ------------------------------------------------------------------ first registration wins

\* This step is the body of a clear call.
ClearStep == \E t \in Strands : pc[t] = "clear_body" /\ pc'[t] = "idle"

\* No flow and no entry goes away or changes in this step.
EntriesKept ==
    \A f \in DOMAIN RegistryView :
        /\ f \in DOMAIN RegistryView'
        /\ \A n \in DOMAIN RegistryView[f] :
               Stored(RegistryView', f, n) = <<RegistryView[f][n]>>

\* A get_flow that returns in this step returns the entries stored.
GetFlowReturnsStored ==
    \A t \in Strands :
        (pc[t] = "get_flow_copy" /\ local[t].op = "get_flow" /\ pc'[t] = "idle") =>
            returned'[t].steps = RegistryView[local[t].name]

\* C34: no step other than the body of clear removes or changes an entry of
\* the registry, whatever register call of whatever strand takes it, and
\* get_flow returns the entries as stored: the entry first stored under
\* (flow, step) is the one every get_flow returns until the next clear.
C34_FirstWins == [][(~ClearStep => EntriesKept) /\ GetFlowReturnsStored]_vars

\* No clear was called; one strand's register has ended with Conflict on a
\* key another value was stored under, and the other strand's get_flow has
\* returned the value first stored.
C34_Witness ==
    \E t, u \in Strands :
        /\ t # u
        /\ pc[t] = "idle" /\ pc[u] = "idle"
        /\ result[u].op = "register" /\ result[u].outcome = "Conflict"
        /\ result[t].op = "get_flow" /\ result[t].outcome = "ok"
        /\ result[t].name = result[u].info.flow_name
        /\ ~clearCalled
        /\ result[u].info.name \in DOMAIN returned[t].steps
        /\ result[u].prior = <<returned[t].steps[result[u].info.name]>>
        /\ returned[t].steps[result[u].info.name] # result[u].info

\* ------------------------------------------------------------------ progress under the lock

\* The steps strand t takes on its own once it is inside an operation: the
\* thread is scheduled again while it can run.
Proceed(t) ==
    /\ \/ Acquire(t)
       \/ RegisterSetDefault(t)
       \/ RegisterCheck(t)
       \/ GetFlowLookup(t)
       \/ GetFlowCopy(t)
    /\ UNCHANGED <<scopeVars, objVars, dagVars, taskVars, cfgVars>>

\* register and get_flow, the operations that leave the lock by a raise.
LockNext ==
    \E t \in Strands :
        \/ \E info \in OrderInfos : RegisterCall(t, info) /\ UNCHANGED <<scopeVars, objVars, dagVars, taskVars, cfgVars>>
        \/ \E name \in FlowNames : GetFlowCall(t, name) /\ UNCHANGED <<scopeVars, objVars, dagVars, taskVars, cfgVars>>
        \/ Acquire(t) /\ UNCHANGED <<scopeVars, objVars, dagVars, taskVars, cfgVars>>
        \/ RegisterSetDefault(t) /\ UNCHANGED <<scopeVars, objVars, dagVars, taskVars, cfgVars>>
        \/ RegisterCheck(t) /\ UNCHANGED <<scopeVars, objVars, dagVars, taskVars, cfgVars>>
        \/ GetFlowLookup(t) /\ UNCHANGED <<scopeVars, objVars, dagVars, taskVars, cfgVars>>
        \/ GetFlowCopy(t) /\ UNCHANGED <<scopeVars, objVars, dagVars, taskVars, cfgVars>>

\* Every strand that can go on inside its operation goes on eventually;
\* whether a strand starts another operation is left open.
SpecLock ==
    /\ RegInit
    /\ [][LockNext]_vars
    /\ \A t \in Strands : WF_vars(Proceed(t))

\* C35: every registry operation a strand has started completes, whatever
\* ended before it and however it ended, a Conflict or a NotFound included;
\* and when no strand is inside an operation the lock is free.
C35_LockReleased ==
    /\ [](AllIdle => lock = "")
    /\ \A t \in Strands : (pc[t] # "idle") ~> (pc[t] = "idle")

\* With no clear called: a get_flow of a flow has ended with NotFound, a
\* register has ended with Conflict, and a register that took the lock after
\* the NotFound has stored the first step of that flow and returned.
C35_Witness ==
    \E t, u \in Strands :
        /\ t # u
        /\ AllIdle
        /\ ~clearCalled
        /\ conflictRaised
        /\ result[u].op = "get_flow" /\ result[u].outcome = "NotFound"
        /\ result[t].op = "register" /\ result[t].outcome = "ok"
        /\ result[t].info.flow_name = result[u].name
        /\ result[t].prior = <<>>
        /\ lock = ""

\* ------------------------------------------------------------------ the span inside the context

\* In this step the entrypoint call on top of strand t's stack enters its span.
EntrypointSpanStarts(t) ==
    /\ InFrame(t, {"entrypoint"}, "span")
    /\ Len(stack'[t]) = Len(stack[t])
    /\ stack'[t][Len(stack'[t])].pc = "body"

\* In this step the entrypoint call on top of strand t's stack leaves its
\* span and ends.
EntrypointSpanEnds(t) ==
    /\ InFrame(t, {"entrypoint"}, "body")
    /\ Len(stack'[t]) = Len(stack[t]) - 1

\* The span starts under the context the call installed and emits its start
\* event before the wrapped logic.
StartsUnderOwn ==
    \A t \in Strands :
        EntrypointSpanStarts(t) =>
            /\ ctxVar[t] = Top(t).own
            /\ ctxVar'[t] = Top(t).own
            /\ stack'[t][Len(stack'[t])].events = <<"step.start">>

\* The span ends after the wrapped logic, its end event after its start
\* event, and the context is cleared after that.
EndsInOrder ==
    \A t \in Strands :
        EntrypointSpanEnds(t) =>
            /\ Top(t).ran
            /\ lastExit'[t].events = <<"step.start", "step.end">>
            /\ ctxVar'[t] = NoCid

\* The span ends while the context the call installed is current.
EndsUnderOwn ==
    \A t \in Strands : EntrypointSpanEnds(t) => ctxVar[t] = Top(t).own

\* C36: within an entrypoint call the span starts after the context is
\* installed and before the wrapped logic, and ends after the wrapped logic
\* and before the context is cleared; at the span's start and at its end the
\* current context is the one the call installed, however the wrapped logic
\* ended.
C36_SpanInsideContext == [][StartsUnderOwn /\ EndsInOrder /\ EndsUnderOwn]_vars
====
